---- MODULE Spec2Model ----
(***************************************************************************)
(* Model of the restaurant back end (KyThuatTVU/WebSiteNhaHang-BackEnd).   *)
(*                                                                         *)
(* Part 1: the reservation resource /api/datban                            *)
(*   src/routes/customerRoutes.js 765-1550 over the table dat_ban that     *)
(*   src/server.js 82-100 creates, reached through executeQuery            *)
(*   (src/server.js 197-205).                                              *)
(*                                                                         *)
(* Text values are sequences of one-character strings, so that trim() and  *)
(* replace(/\s/g,'') are computed and not assumed.  A request body is a    *)
(* record that carries exactly the keys the client sent: a key that is     *)
(* missing from the record is `undefined` in the handler.                  *)
(* Dates are day numbers relative to the server's local today, times are   *)
(* <<hours, minutes>> as split(':').map(Number) yields them, instants are  *)
(* minutes since the server's local midnight of today.                     *)
(***************************************************************************)
EXTENDS Integers, Sequences, FiniteSets, TLC

VARIABLES
    dat_ban,     \* rows of table dat_ban
    nextId,      \* AUTO_INCREMENT counter of dat_ban.id_datban
    sqlStrict,   \* sql_mode of the MySQL server: TRUE = strict
    now,         \* minutes since local midnight (the clock of new Date())
    last,        \* the last request handled to completion, with its response
    req,         \* overlapping POST requests, one record per client
    loai_mon,    \* ids of the rows of table loai_mon
    mon_an,      \* rows of table mon_an
    nextFoodId,  \* AUTO_INCREMENT counter of mon_an.id_mon
    catReq,      \* the category-delete request in flight
    foodReq,     \* the food create/update request in flight
    catLog,      \* what the last successful category delete removed
    held,        \* requests that hold a connection of the pool
    poolFree,    \* connections the pool has open and nobody holds
    poolQueue,   \* requests waiting in the pool's queue, oldest first
    poolLog,     \* what the pool did with the last getConnection / release
    direct,      \* connections opened by mysql.createConnection, not ended
    NODE_ENV,    \* process.env.NODE_ENV
    serverUp,    \* FALSE once process.exit has been called
    res,         \* the response to the last request that failed
    served,      \* responses sent since the server started
    http,        \* the last request the /api/datban router dispatched
    validation,  \* a payload given to the validator, and the errors returned
    search,      \* the last search: the input, the LIKE pattern, the row text
    paging,      \* the last pagination descriptor computed
    ai,          \* the AI service: its providers and the chat call in flight
    nest,        \* requests that hold a pool connection and call getById
    conn,        \* the routine that holds a database connection, and connections lost
    auth,        \* tokens issued at the last login, and the last token presented
    signup       \* the user store and the register requests in flight

vars == <<dat_ban, nextId, sqlStrict, now, last, req,
          loai_mon, mon_an, nextFoodId, catReq, foodReq, catLog,
          held, poolFree, poolQueue, poolLog, direct,
          NODE_ENV, serverUp, res, served, http, validation,
          search, paging, ai, nest, conn, auth, signup>>

resVars == <<dat_ban, nextId, sqlStrict, now, last, req>>
catVars == <<loai_mon, mon_an, nextFoodId, catReq, foodReq, catLog>>
poolVars == <<held, poolFree, poolQueue, poolLog, direct>>
errVars == <<NODE_ENV, serverUp, res, served>>
auxVars == <<search, paging, ai, nest, conn, auth, signup>>
extVars == <<poolVars, errVars, http, validation, auxVars>>
notPool == <<resVars, catVars, errVars, http, validation, auxVars>>
notErr == <<resVars, catVars, poolVars, http, validation, auxVars>>

\* the parts of the server that a specification leaves at rest
PoolAtRest ==
    /\ held = {}
    /\ poolFree = 0
    /\ poolQueue = <<>>
    /\ poolLog = [op |-> "none", r |-> 0]
    /\ direct = 0

NoResponse == [via |-> "none", cause |-> "none", status |-> 0, body |-> <<>>]

ErrAtRest ==
    /\ NODE_ENV = "production"
    /\ serverUp = TRUE
    /\ res = NoResponse
    /\ served = 0

NoHttp ==
    [method |-> "none", path |-> <<>>, handler |-> "none", status |-> 0,
     data |-> <<>>]

NoValidation == [data |-> <<>>, done |-> FALSE, errors |-> <<>>]

NoSearch == [path |-> "none", input |-> <<>>, pattern |-> <<>>, text |-> <<>>]

NoPaging == [by |-> "none"]

NoAi ==
    [gemini |-> FALSE, groq |-> FALSE, phase |-> "unloaded", useGroq |-> FALSE,
     elapsed |-> 0, tried |-> {}, result |-> "none"]

NoNest == [one |-> 0, two |-> 0, back |-> 0, free |-> 0, queue |-> <<>>]

NoConn ==
    [routine |-> "none", pc |-> 0, open |-> FALSE, exit |-> "none",
     poolLost |-> 0, directLost |-> 0]

NoAuth ==
    [clock |-> 0, token |-> <<>>, refreshToken |-> <<>>, presented |-> <<>>,
     status |-> 0, next |-> FALSE]

NumRegClients == 2

IdleRegister == [pc |-> "idle", email |-> "", loaded |-> <<>>, status |-> 0]

NoSignup ==
    [variant |-> "none", users |-> <<>>,
     procs |-> [c \in 1..NumRegClients |-> IdleRegister],
     created |-> {}, started |-> 0]

AuxAtRest ==
    /\ search = NoSearch
    /\ paging = NoPaging
    /\ ai = NoAi
    /\ nest = NoNest
    /\ conn = NoConn
    /\ auth = NoAuth
    /\ signup = NoSignup

ExtAtRest ==
    /\ PoolAtRest /\ ErrAtRest /\ http = NoHttp /\ validation = NoValidation
    /\ AuxAtRest

---------------------------------------------------------------------------
(* Bounds *)

MaxId == 2          \* rows ever inserted into dat_ban
MaxFoodId == 2      \* rows ever inserted into mon_an
NumClients == 2     \* clients whose POST /api/datban requests overlap
NumCategories == 2  \* rows of loai_mon at start
NumPoolClients == 11 \* requests that use the pool at the same time
MaxDirect == 2      \* requests that use createConnection at the same time
MaxServed == 3      \* responses sent since the server started

---------------------------------------------------------------------------
(* Characters and strings *)

Digits == {"0", "1", "2", "3", "4", "5", "6", "7", "8", "9"}
Letters == {"A", "n", "B", "i"}
WS == {" "}

Null == <<"null">>

RECURSIVE Rep(_, _)
Rep(c, n) == IF n = 0 THEN <<>> ELSE <<c>> \o Rep(c, n - 1)

RECURSIVE LTrim(_)
LTrim(s) == IF s # <<>> /\ Head(s) \in WS THEN LTrim(Tail(s)) ELSE s

RECURSIVE RTrim(_)
RTrim(s) ==
    IF s # <<>> /\ s[Len(s)] \in WS THEN RTrim(SubSeq(s, 1, Len(s) - 1)) ELSE s

\* String.prototype.trim
trim(s) == LTrim(RTrim(s))

\* s.replace(/\s/g, '')
IsNotWS(c) == c \notin WS
StripWS(s) == SelectSeq(s, IsNotWS)

AllIn(s, S) == \A i \in 1..Len(s) : s[i] \in S

\* /^[a-zA-Z\u00C0-\u1EF9\s]+$/u
NameRegex(s) == Len(s) >= 1 /\ AllIn(s, Letters \cup WS)

\* /^[0-9]{10,11}$/
PhoneRegex(s) == Len(s) >= 10 /\ Len(s) <= 11 /\ AllIn(s, Digits)

\* /^[^\s@]+@[^\s@]+\.[^\s@]+$/
EmailRegex(s) ==
    \E i \in 2..Len(s), j \in 4..Len(s) :
        /\ i + 1 < j /\ j < Len(s)
        /\ s[i] = "@" /\ s[j] = "."
        /\ \A k \in 1..Len(s) : k # i => (s[k] \notin WS /\ s[k] # "@")

---------------------------------------------------------------------------
(* Request bodies *)

Has(d, f) == f \in DOMAIN d

\* JavaScript truthiness of a text field of the body
Truthy(d, f) == Has(d, f) /\ d[f] # <<>> /\ d[f] # Null

\* JavaScript truthiness of a numeric field of the body
TruthyNum(d, f) == Has(d, f) /\ d[f] # 0

\* JavaScript truthiness of the status string of the body
TruthyStr(d, f) == Has(d, f) /\ d[f] # ""

NaN == -1   \* parseInt() of a path parameter that is not a number

isNaN(x) == x = NaN

---------------------------------------------------------------------------
(* Reservation Validator *)

TzOffset == 420          \* +07:00, the offset of local time from UTC, minutes
DayMin == 24 * 60
BookingDays == 30

\* new Date("YYYY-MM-DD"): midnight UTC of that day, in local minutes
reservationDate(ngay) == ngay * DayMin + TzOffset

\* new Date(`${ngay} ${gio}`): local time
reservationTime(ngay, gio) == ngay * DayMin + gio[1] * 60 + gio[2]

\* Date.prototype.toDateString(): the local calendar day
toDateString(t) == t \div DayMin

Err(cond, msg) == IF cond THEN <<msg>> ELSE <<>>

\* hours < 10 || hours > 21 || (hours === 21 && minutes > 30)
closed_At2130(hours, minutes) ==
    hours < 10 \/ hours > 21 \/ (hours = 21 /\ minutes >= 30)
closed(hours, minutes) ==
    hours < 10 \/ hours > 21 \/ (hours = 21 /\ minutes > 30)

validateReservationData(data, clock) ==
    LET name == data.ten_khach
        phone == IF Truthy(data, "sdt") THEN StripWS(data.sdt) ELSE <<>>
        today == 0
        maxDate == clock + BookingDays * DayMin
        hours == data.gio[1]
        minutes == data.gio[2]
    IN  Err(~Truthy(data, "ten_khach") \/ Len(trim(name)) < 2, "name_min")
        \o Err(Truthy(data, "ten_khach") /\ Len(name) > 100, "name_max")
        \o Err(Truthy(data, "ten_khach") /\ ~NameRegex(name), "name_chars")
        \o Err(~Truthy(data, "sdt"), "phone_required")
        \o Err(phone # <<>> /\ ~PhoneRegex(phone), "phone_format")
        \o Err(Truthy(data, "email") /\ ~EmailRegex(data.email), "email_format")
        \o Err(Truthy(data, "email") /\ Len(data.email) > 100, "email_max")
        \o Err(~Has(data, "ngay"), "date_required")
        \o Err(Has(data, "ngay") /\ reservationDate(data.ngay) < today,
               "date_past")
        \o Err(Has(data, "ngay") /\ reservationDate(data.ngay) > maxDate,
               "date_max")
        \o Err(~Has(data, "gio"), "time_required")
        \o Err(Has(data, "gio") /\ closed(hours, minutes), "time_window")
        \o Err(Has(data, "gio") /\ Has(data, "ngay")
                 /\ toDateString(reservationDate(data.ngay))
                      = toDateString(clock)
                 /\ reservationTime(data.ngay, data.gio) <= clock,
               "time_passed")
        \o Err(~TruthyNum(data, "so_luong_khach"), "guests_required")
        \o Err(~Has(data, "so_luong_khach")
                 \/ data.so_luong_khach < 1 \/ data.so_luong_khach > 20,
               "guests_range")
        \o Err(Truthy(data, "ghi_chu") /\ Len(data.ghi_chu) > 500, "note_max")

---------------------------------------------------------------------------
(* Table dat_ban (src/server.js 82-100) and the statements run on it *)

StatusEnum == {"cho_xac_nhan", "da_xac_nhan", "da_huy"}

\* What an ENUM column does with a value: a member is stored as is; any
\* other value is an error under a strict sql_mode and becomes '' otherwise.
EnumAccepts(strict, v) == v \in StatusEnum \/ ~strict
EnumStored(v) == IF v \in StatusEnum THEN v ELSE ""

\* `sdt = ?` on a VARCHAR column under COLLATE utf8mb4_unicode_ci
\* (PAD SPACE): trailing spaces do not take part in the comparison.
SqlEq(a, b) == RTrim(a) = RTrim(b)

\* SELECT * FROM dat_ban WHERE id_datban = ?
SelectById(db, id) == {r \in db : r.id_datban = id}

\* the insert under a unique key on the active (sdt, ngay, gio): a second
\* active reservation for the slot is not stored
InsertRow_UniqueSlot(db, id, data) ==
    IF \E r \in db : /\ r.sdt = trim(data.sdt) /\ r.ngay = data.ngay
                     /\ r.gio = data.gio /\ r.trang_thai # "da_huy"
    THEN db
    ELSE db \cup {[id_datban |-> id,
                   ten_khach |-> trim(data.ten_khach),
                   sdt |-> trim(data.sdt),
                   email |-> IF Truthy(data, "email") THEN trim(data.email)
                             ELSE Null,
                   ngay |-> data.ngay,
                   gio |-> data.gio,
                   so_luong_khach |-> data.so_luong_khach,
                   ghi_chu |-> IF Truthy(data, "ghi_chu")
                               THEN trim(data.ghi_chu) ELSE Null,
                   trang_thai |-> "cho_xac_nhan"]}

\* INSERT INTO dat_ban (...) VALUES (?, ?, ?, ?, ?, ?, ?, 'cho_xac_nhan')
InsertRow(db, id, data) ==
    db \cup {[id_datban |-> id,
              ten_khach |-> trim(data.ten_khach),
              sdt |-> trim(data.sdt),
              email |-> IF Truthy(data, "email") THEN trim(data.email)
                        ELSE Null,
              ngay |-> data.ngay,
              gio |-> data.gio,
              so_luong_khach |-> data.so_luong_khach,
              ghi_chu |-> IF Truthy(data, "ghi_chu") THEN trim(data.ghi_chu)
                          ELSE Null,
              trang_thai |-> "cho_xac_nhan"]}

\* data.trang_thai || 'cho_xac_nhan'
PutStatus(data) ==
    IF TruthyStr(data, "trang_thai") THEN data.trang_thai ELSE "cho_xac_nhan"

\* UPDATE dat_ban SET ten_khach = ?, ..., trang_thai = ? WHERE id_datban = ?
UpdateRow(db, id, data) ==
    {IF r.id_datban # id THEN r
     ELSE [id_datban |-> id,
           ten_khach |-> trim(data.ten_khach),
           sdt |-> trim(data.sdt),
           email |-> IF Truthy(data, "email") THEN trim(data.email) ELSE Null,
           ngay |-> data.ngay,
           gio |-> data.gio,
           so_luong_khach |-> data.so_luong_khach,
           ghi_chu |-> IF Truthy(data, "ghi_chu") THEN trim(data.ghi_chu)
                       ELSE Null,
           trang_thai |-> EnumStored(PutStatus(data))] : r \in db}

\* UPDATE dat_ban SET trang_thai = ? WHERE id_datban = ?
UpdateStatus(db, id, st) ==
    {IF r.id_datban # id THEN r ELSE [r EXCEPT !.trang_thai = EnumStored(st)]
       : r \in db}

\* DELETE FROM dat_ban WHERE id_datban = ?
DeleteRow(db, id) == {r \in db : r.id_datban # id}

allowedFields == {"ten_khach", "sdt", "email", "ngay", "gio",
                  "so_luong_khach", "ghi_chu", "trang_thai"}

\* Object.keys(updates) filtered by allowedFields.includes(field)
updateFields(updates) == DOMAIN updates \cap allowedFields

\* UPDATE dat_ban SET <field> = ?, ... WHERE id_datban = ? (values as sent)
PatchRow(db, id, updates) ==
    {IF r.id_datban # id THEN r
     ELSE [k \in DOMAIN r |->
             IF k \in updateFields(updates)
             THEN IF k = "trang_thai" THEN EnumStored(updates[k])
                  ELSE updates[k]
             ELSE r[k]] : r \in db}

---------------------------------------------------------------------------
(* Conflict Detector *)

\* if (excludeId): null, 0 and NaN are falsy
TruthyId(x) == x # 0 /\ ~isNaN(x)

\* the detector without its status filter: cancelled reservations count
checkDuplicate_CountsCancelled(db, sdt, ngay, gio, excludeId, fail) ==
    LET count == Cardinality({r \in db :
                    /\ SqlEq(r.sdt, sdt)
                    /\ r.ngay = ngay
                    /\ r.gio = gio
                    /\ (TruthyId(excludeId) => r.id_datban # excludeId)})
    IN  ~fail /\ count > 0

\* the detector failing closed: a failed query reports a conflict
checkDuplicate_FailsClosed(db, sdt, ngay, gio, excludeId, fail) ==
    LET count == Cardinality({r \in db :
                    /\ SqlEq(r.sdt, sdt)
                    /\ r.ngay = ngay
                    /\ r.gio = gio
                    /\ r.trang_thai # "da_huy"
                    /\ (TruthyId(excludeId) => r.id_datban # excludeId)})
    IN  fail \/ count > 0

\* fail: pool.execute threw, executeQuery answered {success: false}
checkDuplicateReservation(db, sdt, ngay, gio, excludeId, fail) ==
    LET count == Cardinality({r \in db :
                    /\ SqlEq(r.sdt, sdt)
                    /\ r.ngay = ngay
                    /\ r.gio = gio
                    /\ r.trang_thai # "da_huy"
                    /\ (TruthyId(excludeId) => r.id_datban # excludeId)})
    IN  ~fail /\ count > 0

---------------------------------------------------------------------------
(* The handlers of /api/datban, each run to completion.                    *)
(* f[k] = TRUE: the k-th executeQuery call of the handler answers          *)
(* {success: false}.  A handler yields the table, the counter and the      *)
(* record of what it did and answered.                                     *)

Flags == [1..4 -> BOOLEAN]

\* the calls a handler makes after the one that made it give up never run
OneOf(n) ==
    {f \in Flags : /\ \A i \in 1..4 : f[i] => i <= n
                   /\ \A i, j \in 1..4 : f[i] /\ f[j] => i = j}

\* the detector's call (k) may fail as well: its failure stops nothing
WithDetector(k, n) ==
    OneOf(n) \cup {[f EXCEPT ![k] = TRUE] : f \in {g \in OneOf(n) :
                                                     \A i \in 1..k : ~g[i]}}

NoData == <<>>

Answer(op, id, data, code, kind, dupRan, dupFail, isDup, persist) ==
    [op |-> op, id |-> id, data |-> data, code |-> code, kind |-> kind,
     dupRan |-> dupRan, dupFail |-> dupFail, isDuplicate |-> isDup,
     persist |-> persist]

Outcome(db, nid, rsp) == [db |-> db, nid |-> nid, rsp |-> rsp]

\* router.post('/')
postReservation(db, nid, data, clock, f) ==
    LET validationErrors == validateReservationData(data, clock)
        isDuplicate ==
            checkDuplicateReservation(db, data.sdt, data.ngay, data.gio, 0, f[1])
    IN  IF Len(validationErrors) > 0
        THEN Outcome(db, nid, Answer("POST", 0, data, 400, "validation",
                                     FALSE, FALSE, FALSE, FALSE))
        ELSE IF isDuplicate
        THEN Outcome(db, nid, Answer("POST", 0, data, 400, "duplicate",
                                     TRUE, f[1], TRUE, FALSE))
        ELSE IF f[2]
        THEN Outcome(db, nid, Answer("POST", 0, data, 500, "error",
                                     TRUE, f[1], FALSE, TRUE))
        ELSE IF f[3]
        THEN Outcome(InsertRow(db, nid, data), nid + 1,
                     Answer("POST", nid, data, 500, "error",
                            TRUE, f[1], FALSE, TRUE))
        ELSE Outcome(InsertRow(db, nid, data), nid + 1,
                     Answer("POST", nid, data, 201, "created",
                            TRUE, f[1], FALSE, TRUE))

\* router.put('/:id')
putReservation(db, nid, id, data, clock, strict, f) ==
    LET validationErrors == validateReservationData(data, clock)
        isDuplicate ==
            checkDuplicateReservation(db, data.sdt, data.ngay, data.gio, id, f[2])
    IN  IF isNaN(id)
        THEN Outcome(db, nid, Answer("PUT", id, data, 400, "invalid_id",
                                     FALSE, FALSE, FALSE, FALSE))
        ELSE IF f[1] \/ SelectById(db, id) = {}
        THEN Outcome(db, nid, Answer("PUT", id, data, 404, "not_found",
                                     FALSE, FALSE, FALSE, FALSE))
        ELSE IF Len(validationErrors) > 0
        THEN Outcome(db, nid, Answer("PUT", id, data, 400, "validation",
                                     FALSE, FALSE, FALSE, FALSE))
        ELSE IF isDuplicate
        THEN Outcome(db, nid, Answer("PUT", id, data, 400, "duplicate",
                                     TRUE, f[2], TRUE, FALSE))
        ELSE IF f[3] \/ ~EnumAccepts(strict, PutStatus(data))
        THEN Outcome(db, nid, Answer("PUT", id, data, 500, "error",
                                     TRUE, f[2], FALSE, TRUE))
        ELSE IF f[4]
        THEN Outcome(UpdateRow(db, id, data), nid,
                     Answer("PUT", id, data, 500, "error",
                            TRUE, f[2], FALSE, TRUE))
        ELSE Outcome(UpdateRow(db, id, data), nid,
                     Answer("PUT", id, data, 200, "ok",
                            TRUE, f[2], FALSE, TRUE))

\* router.delete('/:id')
deleteReservation(db, nid, id, f) ==
    IF isNaN(id)
    THEN Outcome(db, nid, Answer("DELETE", id, NoData, 400, "invalid_id",
                                 FALSE, FALSE, FALSE, FALSE))
    ELSE IF f[1] \/ SelectById(db, id) = {}
    THEN Outcome(db, nid, Answer("DELETE", id, NoData, 404, "not_found",
                                 FALSE, FALSE, FALSE, FALSE))
    ELSE IF f[2]
    THEN Outcome(db, nid, Answer("DELETE", id, NoData, 500, "error",
                                 FALSE, FALSE, FALSE, TRUE))
    ELSE Outcome(DeleteRow(db, id), nid,
                 Answer("DELETE", id, NoData, 200, "ok",
                        FALSE, FALSE, FALSE, TRUE))

\* router.patch('/:id/status')
patchStatus(db, nid, id, data, strict, f) ==
    IF isNaN(id)
    THEN Outcome(db, nid, Answer("PATCH_STATUS", id, data, 400, "invalid_id",
                                 FALSE, FALSE, FALSE, FALSE))
    ELSE IF ~TruthyStr(data, "trang_thai") \/ data.trang_thai \notin StatusEnum
    THEN Outcome(db, nid, Answer("PATCH_STATUS", id, data, 400, "invalid_status",
                                 FALSE, FALSE, FALSE, FALSE))
    ELSE IF f[1] \/ SelectById(db, id) = {}
    THEN Outcome(db, nid, Answer("PATCH_STATUS", id, data, 404, "not_found",
                                 FALSE, FALSE, FALSE, FALSE))
    ELSE IF f[2] \/ ~EnumAccepts(strict, data.trang_thai)
    THEN Outcome(db, nid, Answer("PATCH_STATUS", id, data, 500, "error",
                                 FALSE, FALSE, FALSE, TRUE))
    ELSE IF f[3]
    THEN Outcome(UpdateStatus(db, id, data.trang_thai), nid,
                 Answer("PATCH_STATUS", id, data, 500, "error",
                        FALSE, FALSE, FALSE, TRUE))
    ELSE Outcome(UpdateStatus(db, id, data.trang_thai), nid,
                 Answer("PATCH_STATUS", id, data, 200, "ok",
                        FALSE, FALSE, FALSE, TRUE))

\* router.patch('/:id')
patchReservation(db, nid, id, updates, strict, f) ==
    IF isNaN(id)
    THEN Outcome(db, nid, Answer("PATCH", id, updates, 400, "invalid_id",
                                 FALSE, FALSE, FALSE, FALSE))
    ELSE IF f[1] \/ SelectById(db, id) = {}
    THEN Outcome(db, nid, Answer("PATCH", id, updates, 404, "not_found",
                                 FALSE, FALSE, FALSE, FALSE))
    ELSE IF updateFields(updates) = {}
    THEN Outcome(db, nid, Answer("PATCH", id, updates, 400, "no_fields",
                                 FALSE, FALSE, FALSE, FALSE))
    ELSE IF f[2] \/ (Has(updates, "trang_thai")
                       /\ ~EnumAccepts(strict, updates.trang_thai))
    THEN Outcome(db, nid, Answer("PATCH", id, updates, 500, "error",
                                 FALSE, FALSE, FALSE, TRUE))
    ELSE IF f[3]
    THEN Outcome(PatchRow(db, id, updates), nid,
                 Answer("PATCH", id, updates, 500, "error",
                        FALSE, FALSE, FALSE, TRUE))
    ELSE Outcome(PatchRow(db, id, updates), nid,
                 Answer("PATCH", id, updates, 200, "ok",
                        FALSE, FALSE, FALSE, TRUE))

---------------------------------------------------------------------------
(* Requests the clients send *)

P1 == <<"0", "9", "1", "2", "3", "4", "5", "6", "7", "8">>
P1Lead == <<" ">> \o P1                  \* " 0912345678"
P1Trail == P1 \o <<" ">>                 \* "0912345678 "
PShort == SubSeq(P1, 1, 9)               \* nine digits
NameAn == <<"A", "n">>
T19 == <<19, 0>>
T22 == <<22, 0>>

Body(sdt) ==
    [ten_khach |-> NameAn, sdt |-> sdt, ngay |-> 1, gio |-> T19,
     so_luong_khach |-> 4]

BodyStatus(sdt, st) ==
    [ten_khach |-> NameAn, sdt |-> sdt, ngay |-> 1, gio |-> T19,
     so_luong_khach |-> 4, trang_thai |-> st]

ValidBodies == {Body(P1), Body(P1Lead), Body(P1Trail)}

InvalidBodies ==
    {[Body(P1) EXCEPT !.gio = T22],
     [Body(P1) EXCEPT !.sdt = PShort],
     [Body(P1) EXCEPT !.ngay = -1],
     [sdt |-> P1, ngay |-> 1, gio |-> T19, so_luong_khach |-> 4]}

StatusInputs == StatusEnum \cup {"foo"}

PostInputs == ValidBodies \cup InvalidBodies

PutInputs ==
    ValidBodies \cup InvalidBodies
      \cup {BodyStatus(P1, st) : st \in StatusInputs}

PatchStatusInputs == {[trang_thai |-> st] : st \in StatusInputs} \cup {NoData}

PatchInputs ==
    {[trang_thai |-> st] : st \in StatusInputs}
      \cup {[gio |-> T22], [vai_tro |-> "admin"]}

IdInputs == 0..MaxId \cup {NaN}

NowSet == {720}

---------------------------------------------------------------------------
(* Sequential use of /api/datban: one request at a time.  `last` holds the *)
(* request in service and its response until the client has taken it.      *)

NoRequest == Answer("none", 0, NoData, 0, "none", FALSE, FALSE, FALSE, FALSE)

Init ==
    /\ dat_ban = {}
    /\ nextId = 1
    /\ sqlStrict \in BOOLEAN
    /\ now \in NowSet
    /\ last = NoRequest
    /\ req = <<>>
    /\ loai_mon = {}
    /\ mon_an = {}
    /\ nextFoodId = 1
    /\ catReq = <<>>
    /\ foodReq = <<>>
    /\ catLog = <<>>
    /\ ExtAtRest

Apply(o) ==
    /\ dat_ban' = o.db
    /\ nextId' = o.nid
    /\ last' = o.rsp
    /\ UNCHANGED <<sqlStrict, now, req>>
    /\ UNCHANGED <<catVars, extVars>>

NoFail == [i \in 1..4 |-> FALSE]

\* every executeQuery call succeeds

Post ==
    \E data \in PostInputs :
        /\ last = NoRequest /\ nextId <= MaxId
        /\ Apply(postReservation(dat_ban, nextId, data, now, NoFail))

Put ==
    \E id \in IdInputs, data \in PutInputs :
        /\ last = NoRequest
        /\ Apply(putReservation(dat_ban, nextId, id, data, now, sqlStrict,
                                NoFail))

Delete ==
    \E id \in IdInputs :
        /\ last = NoRequest
        /\ Apply(deleteReservation(dat_ban, nextId, id, NoFail))

PatchStatus ==
    \E id \in IdInputs, data \in PatchStatusInputs :
        /\ last = NoRequest
        /\ Apply(patchStatus(dat_ban, nextId, id, data, sqlStrict, NoFail))

Patch ==
    \E id \in IdInputs, updates \in PatchInputs :
        /\ last = NoRequest
        /\ Apply(patchReservation(dat_ban, nextId, id, updates, sqlStrict,
                                  NoFail))

\* any executeQuery call may answer {success: false}

PostFault ==
    \E data \in PostInputs, f \in WithDetector(1, 3) :
        /\ last = NoRequest /\ nextId <= MaxId
        /\ Apply(postReservation(dat_ban, nextId, data, now, f))

PutFault ==
    \E id \in IdInputs, data \in PutInputs, f \in WithDetector(2, 4) :
        /\ last = NoRequest
        /\ Apply(putReservation(dat_ban, nextId, id, data, now, sqlStrict, f))

DeleteFault ==
    \E id \in IdInputs, f \in OneOf(2) :
        /\ last = NoRequest
        /\ Apply(deleteReservation(dat_ban, nextId, id, f))

PatchStatusFault ==
    \E id \in IdInputs, data \in PatchStatusInputs, f \in OneOf(3) :
        /\ last = NoRequest
        /\ Apply(patchStatus(dat_ban, nextId, id, data, sqlStrict, f))

PatchFault ==
    \E id \in IdInputs, updates \in PatchInputs, f \in OneOf(3) :
        /\ last = NoRequest
        /\ Apply(patchReservation(dat_ban, nextId, id, updates, sqlStrict, f))

\* the client has read the response; the next request can be served
Respond ==
    /\ last # NoRequest
    /\ last' = NoRequest
    /\ UNCHANGED <<dat_ban, nextId, sqlStrict, now, req>>
    /\ UNCHANGED <<catVars, extVars>>

Next == Post \/ Put \/ Delete \/ PatchStatus \/ Patch \/ Respond

Spec == Init /\ [][Next]_vars

NextFault ==
    PostFault \/ PutFault \/ DeleteFault \/ PatchStatusFault \/ PatchFault
      \/ Respond

SpecFault == Init /\ [][NextFault]_vars

---------------------------------------------------------------------------
(* Overlapping POST /api/datban requests.  router.post('/') runs from one  *)
(* await to the next without interruption; each executeQuery call is the   *)
(* point where another request's handler can run.                          *)

Clients == 1..NumClients

RaceInputs == {Body(P1), Body(P1Lead), [Body(P1) EXCEPT !.gio = T22]}

Idle ==
    [pc |-> "idle", data |-> NoData, isDuplicate |-> FALSE, dupFail |-> FALSE,
     code |-> 0, kind |-> "none", id |-> 0]

InitRace ==
    /\ dat_ban = {}
    /\ nextId = 1
    /\ sqlStrict \in BOOLEAN
    /\ now \in NowSet
    /\ last = NoRequest
    /\ req = [c \in Clients |-> Idle]
    /\ loai_mon = {}
    /\ mon_an = {}
    /\ nextFoodId = 1
    /\ catReq = <<>>
    /\ foodReq = <<>>
    /\ catLog = <<>>
    /\ ExtAtRest

\* requests that may still insert a row
Inserting == {c \in Clients : req[c].pc \in {"checking", "inserting"}}

\* the request arrives: validation, then the detector's query is sent
PostReceive(c) ==
    \E data \in RaceInputs :
        /\ req[c].pc = "idle"
        /\ nextId + Cardinality(Inserting) <= MaxId
        /\ req' = [req EXCEPT ![c] =
              IF Len(validateReservationData(data, now)) > 0
              THEN [Idle EXCEPT !.pc = "done", !.data = data, !.code = 400,
                                !.kind = "validation"]
              ELSE [Idle EXCEPT !.pc = "checking", !.data = data]]
        /\ UNCHANGED <<dat_ban, nextId, sqlStrict, now, last>>
        /\ UNCHANGED <<catVars, extVars>>

\* the detector's query runs; a conflict is answered, else the insert is sent
PostCheck(c) ==
    \E fail \in BOOLEAN :
        LET data == req[c].data
            isDuplicate ==
                checkDuplicateReservation(dat_ban, data.sdt, data.ngay,
                                          data.gio, 0, fail)
        IN  /\ req[c].pc = "checking"
            /\ req' = [req EXCEPT ![c] =
                  IF isDuplicate
                  THEN [@ EXCEPT !.pc = "done", !.isDuplicate = TRUE,
                                 !.dupFail = fail, !.code = 400,
                                 !.kind = "duplicate"]
                  ELSE [@ EXCEPT !.pc = "inserting", !.dupFail = fail]]
            /\ UNCHANGED <<dat_ban, nextId, sqlStrict, now, last>>
            /\ UNCHANGED <<catVars, extVars>>

\* the insert runs; on success the select of the new row is sent
PostInsert(c) ==
    \E fail \in BOOLEAN :
        /\ req[c].pc = "inserting"
        /\ IF fail
           THEN /\ req' = [req EXCEPT ![c] =
                      [@ EXCEPT !.pc = "done", !.code = 500, !.kind = "error"]]
                /\ UNCHANGED <<dat_ban, nextId>>
           ELSE /\ dat_ban' = InsertRow(dat_ban, nextId, req[c].data)
                /\ nextId' = nextId + 1
                /\ req' = [req EXCEPT ![c] =
                      [@ EXCEPT !.pc = "selecting", !.id = nextId]]
        /\ UNCHANGED <<sqlStrict, now, last>>
        /\ UNCHANGED <<catVars, extVars>>

\* the select runs and the response is sent
PostSelect(c) ==
    \E fail \in BOOLEAN :
        /\ req[c].pc = "selecting"
        /\ req' = [req EXCEPT ![c] =
              IF fail
              THEN [@ EXCEPT !.pc = "done", !.code = 500, !.kind = "error"]
              ELSE [@ EXCEPT !.pc = "done", !.code = 201, !.kind = "created"]]
        /\ UNCHANGED <<dat_ban, nextId, sqlStrict, now, last>>
        /\ UNCHANGED <<catVars, extVars>>

\* the client has read the response
PostDone(c) ==
    /\ req[c].pc = "done"
    /\ req' = [req EXCEPT ![c] = Idle]
    /\ UNCHANGED <<dat_ban, nextId, sqlStrict, now, last>>
    /\ UNCHANGED <<catVars, extVars>>

NextRace ==
    \E c \in Clients :
        PostReceive(c) \/ PostCheck(c) \/ PostInsert(c) \/ PostSelect(c)
          \/ PostDone(c)

SpecRace == InitRace /\ [][NextRace]_vars

---------------------------------------------------------------------------
(* Categories and food items: CategoryModel.delete overlapping              *)
(* FoodModel.create and FoodModel.update.  Each connection.query call is    *)
(* one step.  mon_an.id_loai references loai_mon with ON DELETE CASCADE     *)
(* (src/server.js 162).                                                     *)

CategoryIds == 1..NumCategories
CategoryInputs == 0..NumCategories
FoodNames == {"pho", "com"}

NoCatReq == [pc |-> "idle", id |-> 0, code |-> 0]
NoFoodReq ==
    [pc |-> "idle", op |-> "none", id |-> 0, id_loai |-> 0, ten_mon |-> "",
     code |-> 0]

InitCat ==
    /\ dat_ban = {}
    /\ nextId = 1
    /\ sqlStrict \in BOOLEAN
    /\ now \in NowSet
    /\ last = NoRequest
    /\ req = <<>>
    /\ loai_mon = CategoryIds
    /\ mon_an = {}
    /\ nextFoodId = 1
    /\ catReq = NoCatReq
    /\ foodReq = NoFoodReq
    /\ catLog = <<>>
    /\ ExtAtRest

\* COUNT(m.id_mon) as so_luong_mon of CategoryModel.getById
so_luong_mon(foods, id) == Cardinality({m \in foods : m.id_loai = id})

\* DELETE FROM loai_mon WHERE id_loai = ?, with the cascade on mon_an
DeleteCategory(cats, id) == cats \ {id}
CascadeFoods(foods, id) == {m \in foods : m.id_loai # id}

\* CategoryModel.delete(id) is called
CatDeleteStart ==
    \E id \in CategoryInputs :
        /\ catReq.pc = "idle"
        /\ catReq' = [pc |-> "getById", id |-> id, code |-> 0]
        /\ UNCHANGED <<loai_mon, mon_an, nextFoodId, foodReq, catLog>>
        /\ UNCHANGED <<resVars, extVars>>

\* this.getById(id), then the two checks on its result
CatDeleteGetById ==
    \E fail \in BOOLEAN :
        /\ catReq.pc = "getById"
        /\ catReq' =
              IF fail THEN [catReq EXCEPT !.pc = "done", !.code = 500]
              ELSE IF catReq.id \notin loai_mon
              THEN [catReq EXCEPT !.pc = "done", !.code = 404]
              ELSE IF so_luong_mon(mon_an, catReq.id) > 0
              THEN [catReq EXCEPT !.pc = "done", !.code = 400]
              ELSE [catReq EXCEPT !.pc = "delete"]
        /\ UNCHANGED <<loai_mon, mon_an, nextFoodId, foodReq, catLog>>
        /\ UNCHANGED <<resVars, extVars>>

\* the DELETE statement
CatDeleteRun ==
    \E fail \in BOOLEAN :
        /\ catReq.pc = "delete"
        /\ IF fail
           THEN /\ catReq' = [catReq EXCEPT !.pc = "done", !.code = 500]
                /\ UNCHANGED <<loai_mon, mon_an, catLog>>
           ELSE /\ loai_mon' = DeleteCategory(loai_mon, catReq.id)
                /\ mon_an' = CascadeFoods(mon_an, catReq.id)
                /\ catLog' = [id |-> catReq.id,
                              removed |-> catReq.id \in loai_mon,
                              so_luong_mon |-> so_luong_mon(mon_an, catReq.id)]
                /\ catReq' = [catReq EXCEPT !.pc = "done", !.code = 200]
        /\ UNCHANGED <<nextFoodId, foodReq>>
        /\ UNCHANGED <<resVars, extVars>>

CatDeleteDone ==
    /\ catReq.pc = "done"
    /\ catReq' = NoCatReq
    /\ UNCHANGED <<loai_mon, mon_an, nextFoodId, foodReq, catLog>>
    /\ UNCHANGED <<resVars, extVars>>

\* FoodModel.create(foodData) is called
FoodCreateStart ==
    \E c \in CategoryInputs, n \in FoodNames :
        /\ foodReq.pc = "idle"
        /\ nextFoodId <= MaxFoodId
        /\ foodReq' = [NoFoodReq EXCEPT !.pc = "categoryCheck", !.op = "create",
                                        !.id_loai = c, !.ten_mon = n]
        /\ UNCHANGED <<loai_mon, mon_an, nextFoodId, catReq, catLog>>
        /\ UNCHANGED <<resVars, extVars>>

\* FoodModel.update(id, {id_loai}) is called
FoodUpdateStart ==
    \E id \in 1..MaxFoodId, c \in CategoryIds :
        /\ foodReq.pc = "idle"
        /\ foodReq' = [NoFoodReq EXCEPT !.pc = "getById", !.op = "update",
                                        !.id = id, !.id_loai = c]
        /\ UNCHANGED <<loai_mon, mon_an, nextFoodId, catReq, catLog>>
        /\ UNCHANGED <<resVars, extVars>>

\* update: this.getById(id) and the check that the item exists
FoodUpdateGetById ==
    \E fail \in BOOLEAN :
        /\ foodReq.pc = "getById"
        /\ foodReq' =
              IF fail THEN [foodReq EXCEPT !.pc = "done", !.code = 500]
              ELSE IF \A m \in mon_an : m.id_mon # foodReq.id
              THEN [foodReq EXCEPT !.pc = "done", !.code = 404]
              ELSE [foodReq EXCEPT !.pc = "categoryCheck"]
        /\ UNCHANGED <<loai_mon, mon_an, nextFoodId, catReq, catLog>>
        /\ UNCHANGED <<resVars, extVars>>

\* SELECT id_loai FROM loai_mon WHERE id_loai = ?
FoodCategoryCheck ==
    \E fail \in BOOLEAN :
        /\ foodReq.pc = "categoryCheck"
        /\ foodReq' =
              IF fail THEN [foodReq EXCEPT !.pc = "done", !.code = 500]
              ELSE IF foodReq.id_loai \notin loai_mon
              THEN [foodReq EXCEPT !.pc = "done", !.code = 400]
              ELSE IF foodReq.op = "create"
              THEN [foodReq EXCEPT !.pc = "nameCheck"]
              ELSE [foodReq EXCEPT !.pc = "write"]
        /\ UNCHANGED <<loai_mon, mon_an, nextFoodId, catReq, catLog>>
        /\ UNCHANGED <<resVars, extVars>>

\* create: SELECT ten_mon FROM mon_an WHERE ten_mon = ?
FoodNameCheck ==
    \E fail \in BOOLEAN :
        /\ foodReq.pc = "nameCheck"
        /\ foodReq' =
              IF fail THEN [foodReq EXCEPT !.pc = "done", !.code = 500]
              ELSE IF \E m \in mon_an : m.ten_mon = foodReq.ten_mon
              THEN [foodReq EXCEPT !.pc = "done", !.code = 409]
              ELSE [foodReq EXCEPT !.pc = "write"]
        /\ UNCHANGED <<loai_mon, mon_an, nextFoodId, catReq, catLog>>
        /\ UNCHANGED <<resVars, extVars>>

\* the INSERT or UPDATE statement; the foreign key rejects a category that
\* is no longer there
FoodWrite ==
    \E fail \in BOOLEAN :
        /\ foodReq.pc = "write"
        /\ IF fail \/ foodReq.id_loai \notin loai_mon
           THEN /\ foodReq' = [foodReq EXCEPT !.pc = "done", !.code = 500]
                /\ UNCHANGED <<mon_an, nextFoodId>>
           ELSE IF foodReq.op = "create"
           THEN /\ mon_an' = mon_an \cup {[id_mon |-> nextFoodId,
                                           id_loai |-> foodReq.id_loai,
                                           ten_mon |-> foodReq.ten_mon]}
                /\ nextFoodId' = nextFoodId + 1
                /\ foodReq' = [foodReq EXCEPT !.pc = "reread", !.id = nextFoodId]
           ELSE /\ mon_an' = {IF m.id_mon = foodReq.id
                              THEN [m EXCEPT !.id_loai = foodReq.id_loai]
                              ELSE m : m \in mon_an}
                /\ UNCHANGED nextFoodId
                /\ foodReq' = [foodReq EXCEPT !.pc = "reread"]
        /\ UNCHANGED <<loai_mon, catReq, catLog>>
        /\ UNCHANGED <<resVars, extVars>>

\* return await this.getById(...)
FoodReread ==
    \E fail \in BOOLEAN :
        /\ foodReq.pc = "reread"
        /\ foodReq' = [foodReq EXCEPT !.pc = "done",
                                      !.code = IF fail THEN 500 ELSE 200]
        /\ UNCHANGED <<loai_mon, mon_an, nextFoodId, catReq, catLog>>
        /\ UNCHANGED <<resVars, extVars>>

FoodDone ==
    /\ foodReq.pc = "done"
    /\ foodReq' = NoFoodReq
    /\ UNCHANGED <<loai_mon, mon_an, nextFoodId, catReq, catLog>>
    /\ UNCHANGED <<resVars, extVars>>

NextCat ==
    \/ CatDeleteStart \/ CatDeleteGetById \/ CatDeleteRun \/ CatDeleteDone
    \/ FoodCreateStart \/ FoodUpdateStart \/ FoodUpdateGetById
    \/ FoodCategoryCheck \/ FoodNameCheck \/ FoodWrite \/ FoodReread
    \/ FoodDone

SpecCat == InitCat /\ [][NextCat]_vars

---------------------------------------------------------------------------
(* Properties of the reservation resource *)

Active(r) == r.trang_thai # "da_huy"

SameSlot(r1, r2) ==
    r1.sdt = r2.sdt /\ r1.ngay = r2.ngay /\ r1.gio = r2.gio

\* C1: in every state reached by requests served one after the other, at
\* most one reservation that is not cancelled exists for a (phone, date,
\* time) tuple.
C1_AtMostOneActive ==
    \A r1, r2 \in dat_ban :
        (Active(r1) /\ Active(r2) /\ SameSlot(r1, r2)) => r1 = r2

\* two texts are equal once the shorter is padded with blanks to the length
\* of the longer (how a PAD SPACE collation compares them)
PadTo(t, n) == t \o Rep(" ", n - Len(t))
SamePhone(a, b) ==
    LET n == IF Len(a) > Len(b) THEN Len(a) ELSE Len(b)
    IN  PadTo(a, n) = PadTo(b, n)

\* C2: when its query succeeds, the Conflict Detector answers true exactly
\* when the table, as the query finds it, holds a reservation with the same
\* phone, date and time that is not cancelled and is not the excluded one.
C2_DetectorIff ==
    [][(last'.dupRan /\ ~last'.dupFail) =>
         (last'.isDuplicate <=>
            \E r \in dat_ban :
                /\ SamePhone(r.sdt, last'.data.sdt)
                /\ r.ngay = last'.data.ngay
                /\ r.gio = last'.data.gio
                /\ r.trang_thai # "da_huy"
                /\ (last'.op = "PUT" => r.id_datban # last'.id))]_vars

\* C2 witness: an update met the detector's true answer: another, active
\* reservation holds the slot, and a cancelled one was being updated.
C2_Witness ==
    /\ last.op = "PUT" /\ last.dupRan /\ ~last.dupFail /\ last.isDuplicate
    /\ \E r \in dat_ban : r.id_datban = last.id /\ r.trang_thai = "da_huy"
    /\ \E r \in dat_ban : r.id_datban # last.id /\ Active(r)

\* C3: a valid create answers 201 and stores the reservation as pending; the
\* same create sent again at once answers 400 (duplicate) and stores
\* nothing; once the first is cancelled, the same create answers 201.
C3_CreateDuplicateCancelCreate ==
    (last.op = "POST" /\ last.code = 201) =>
        LET again == postReservation(dat_ban, nextId, last.data, now, NoFail)
            cancel == patchStatus(dat_ban, nextId, last.id,
                                  [trang_thai |-> "da_huy"], sqlStrict, NoFail)
            repeat == postReservation(cancel.db, nextId, last.data, now, NoFail)
        IN  /\ \E r \in dat_ban :
                 r.id_datban = last.id /\ r.trang_thai = "cho_xac_nhan"
            /\ again.rsp.code = 400 /\ again.rsp.kind = "duplicate"
            /\ again.db = dat_ban
            /\ cancel.rsp.code = 200
            /\ repeat.rsp.code = 201

\* C4: a reservation whose status is cancelled never gets the status pending
\* or confirmed again.
C4_CancelledIsFinal ==
    [][\A r \in dat_ban : \A r2 \in dat_ban' :
          (r.trang_thai = "da_huy" /\ r2.id_datban = r.id_datban)
            => r2.trang_thai \notin {"cho_xac_nhan", "da_xac_nhan"}]_vars

\* the fields a partial update leaves out, taken from a valid reservation
Completed(updates) ==
    [k \in DOMAIN Body(P1) \cup DOMAIN updates |->
        IF k \in DOMAIN updates THEN updates[k] ELSE Body(P1)[k]]

ViolatesRule(op, data, clock) ==
    IF op = "PATCH"
    THEN Len(validateReservationData(Completed(data), clock)) > 0
    ELSE Len(validateReservationData(data, clock)) > 0

\* C5: a create, full update or partial update of an existing reservation
\* whose payload violates a Validator rule is answered 400, the Conflict
\* Detector is not run and the table is left as it was.
C5_InvalidPayloadStopsHere ==
    [][(/\ last'.op \in {"POST", "PUT", "PATCH"}
        /\ last'.kind \notin {"invalid_id", "not_found"}
        /\ ViolatesRule(last'.op, last'.data, now))
         => (last'.code = 400 /\ ~last'.dupRan /\ dat_ban' = dat_ban)]_vars

\* C7: when the detector's query fails, the detector reports no conflict and
\* the request goes on to the insert or update statement.
C7_FailsOpen ==
    last.dupFail =>
        (last.dupRan /\ ~last.isDuplicate /\ last.kind # "duplicate"
           /\ last.persist)

\* C7 witness: a create whose detector query failed was stored although an
\* active reservation already held the slot.
C7_Witness ==
    /\ last.op = "POST" /\ last.dupFail /\ last.code = 201
    /\ \E r1, r2 \in dat_ban :
          /\ r1.id_datban = last.id /\ r2.id_datban # last.id
          /\ Active(r2) /\ SameSlot(r1, r2)

\* C8: the stored status of every reservation is one of cho_xac_nhan
\* (pending), da_xac_nhan (confirmed), da_huy (cancelled).
C8_StatusInEnum == \A r \in dat_ban : r.trang_thai \in StatusEnum


\* C9: an update changes only the fields its request provides: every other
\* field of the reservation, the status included, keeps its stored value,
\* and so does every other reservation.
C9_OnlyProvidedFieldsChange ==
    [][(last'.op \in {"PUT", "PATCH"} /\ last'.code = 200) =>
         \A r \in dat_ban : \E r2 \in dat_ban' :
            /\ r2.id_datban = r.id_datban
            /\ \A k \in DOMAIN r :
                  (r.id_datban # last'.id \/ k \notin DOMAIN last'.data)
                    => r2[k] = r[k]]_vars

---------------------------------------------------------------------------
(* Properties of overlapping creates *)

\* C6: two creates for the same (phone, date, time) that both got the
\* detector's answer "no conflict" are both stored and both answered 201:
\* two active reservations hold the slot.
C6_BothPassBothStored ==
    \A c1, c2 \in Clients :
        (/\ c1 # c2
         /\ req[c1].pc = "done" /\ req[c2].pc = "done"
         /\ req[c1].data = req[c2].data
         /\ req[c1].kind = "created" /\ req[c2].kind = "created")
          => \E r1, r2 \in dat_ban :
                /\ r1.id_datban = req[c1].id /\ r2.id_datban = req[c2].id
                /\ r1 # r2 /\ Active(r1) /\ Active(r2) /\ SameSlot(r1, r2)

\* C6 witness: two overlapping creates with the same body, whose detector
\* queries both succeeded, are both answered 201.
C6_Witness ==
    \E c1, c2 \in Clients :
        /\ c1 # c2
        /\ req[c1].pc = "done" /\ req[c2].pc = "done"
        /\ req[c1].code = 201 /\ req[c2].code = 201
        /\ req[c1].data = Body(P1) /\ req[c2].data = Body(P1)
        /\ ~req[c1].dupFail /\ ~req[c2].dupFail
        /\ Cardinality({r \in dat_ban : Active(r) /\ r.sdt = P1}) >= 2

---------------------------------------------------------------------------
(* Properties of categories *)

\* C10: a category delete that succeeds removes a category that no food
\* item references at the moment its row is removed, also when a food
\* create or update for that category runs between the delete's check and
\* its DELETE statement.
C10_DeleteOnlyUnreferenced ==
    (catLog # <<>> /\ catLog.removed) => catLog.so_luong_mon = 0

---------------------------------------------------------------------------
(* Part 3: database connections.                                           *)
(* src/server.js 40-56 creates the one pool of the process with            *)
(* mysql.createPool(dbConfig); executeQuery and the Food/Category models   *)
(* take their connections from it.  The auth middleware                    *)
(* (src/unnamed/part_002 31-39) and CustomerModel                          *)
(* (src/models/CustomerModel.js 20-29) open a connection of their own with *)
(* mysql.createConnection for every call and end it afterwards.            *)
(* The pool is mysql2's: getConnection hands out a free connection, else   *)
(* opens one while fewer than connectionLimit are open, else fails at once *)
(* (waitForConnections false, or queueLimit reached) or queues the caller; *)
(* release hands the connection to the oldest queued caller, if any.       *)

connectionLimit == 10
waitForConnections_Off == FALSE
waitForConnections == TRUE
queueLimit == 0

PoolClients == 1..NumPoolClients

Waiting == {poolQueue[i] : i \in 1..Len(poolQueue)}

PoolOpen == Cardinality(held) + poolFree

InitPool ==
    /\ dat_ban = {}
    /\ nextId = 1
    /\ sqlStrict = TRUE
    /\ now \in NowSet
    /\ last = NoRequest
    /\ req = <<>>
    /\ loai_mon = {}
    /\ mon_an = {}
    /\ nextFoodId = 1
    /\ catReq = <<>>
    /\ foodReq = <<>>
    /\ catLog = <<>>
    /\ ExtAtRest

\* pool.getConnection() / pool.execute() called for request r
PoolGetConnection(r) ==
    /\ r \notin held
    /\ r \notin Waiting
    /\ IF poolFree > 0
       THEN /\ poolFree' = poolFree - 1
            /\ held' = held \cup {r}
            /\ poolLog' = [op |-> "reuse", r |-> r]
            /\ UNCHANGED poolQueue
       ELSE IF connectionLimit = 0 \/ PoolOpen < connectionLimit
       THEN /\ held' = held \cup {r}
            /\ poolLog' = [op |-> "connect", r |-> r]
            /\ UNCHANGED <<poolFree, poolQueue>>
       ELSE IF ~waitForConnections
                \/ (queueLimit # 0 /\ Len(poolQueue) >= queueLimit)
       THEN /\ poolLog' = [op |-> "reject", r |-> r]
            /\ UNCHANGED <<held, poolFree, poolQueue>>
       ELSE /\ poolQueue' = Append(poolQueue, r)
            /\ poolLog' = [op |-> "enqueue", r |-> r]
            /\ UNCHANGED <<held, poolFree>>
    /\ UNCHANGED direct
    /\ UNCHANGED notPool

\* connection.release() of request r (or the end of its pool.execute)
PoolRelease(r) ==
    /\ r \in held
    /\ IF poolQueue # <<>>
       THEN /\ held' = (held \ {r}) \cup {Head(poolQueue)}
            /\ poolQueue' = Tail(poolQueue)
            /\ poolLog' = [op |-> "handover", r |-> Head(poolQueue)]
            /\ UNCHANGED poolFree
       ELSE /\ held' = held \ {r}
            /\ poolFree' = poolFree + 1
            /\ poolLog' = [op |-> "release", r |-> r]
            /\ UNCHANGED poolQueue
    /\ UNCHANGED direct
    /\ UNCHANGED notPool

\* getConnection() of the auth middleware / CustomerModel:
\* mysql.createConnection(dbConfig)
DirectConnect ==
    /\ direct < MaxDirect
    /\ direct' = direct + 1
    /\ UNCHANGED <<held, poolFree, poolQueue, poolLog>>
    /\ UNCHANGED notPool

\* connection.end()
DirectEnd ==
    /\ direct > 0
    /\ direct' = direct - 1
    /\ UNCHANGED <<held, poolFree, poolQueue, poolLog>>
    /\ UNCHANGED notPool

GetConnection == \E r \in PoolClients : PoolGetConnection(r)
Release == \E r \in PoolClients : PoolRelease(r)

NextPool == GetConnection \/ Release \/ DirectConnect \/ DirectEnd

SpecPool == InitPool /\ [][NextPool]_vars

---------------------------------------------------------------------------
(* Properties of the database connections *)

\* C11: at every moment the number of database connections the server has
\* open is at most the pool's maximum, connectionLimit = 10.
C11_OpenConnectionsBounded == PoolOpen + direct <= connectionLimit

PoolExhausted == poolFree = 0 /\ Cardinality(held) = connectionLimit

\* C12: a request for a connection is never failed by the pool; it enters
\* the queue only when every connection is in use, and a release with a
\* non-empty queue gives the connection to the oldest queued request.
C12_QueuedThenServed ==
    [][/\ poolLog'.op # "reject"
       /\ Len(poolQueue') > Len(poolQueue) => PoolExhausted
       /\ (PoolExhausted /\ poolLog' # poolLog
              /\ poolLog'.op \in {"enqueue", "reject"})
            => (poolLog'.op = "enqueue"
                /\ poolQueue' = Append(poolQueue, poolLog'.r))
       /\ (poolQueue # <<>> /\ \E r \in held : r \notin held')
            => (/\ Head(poolQueue) \in held'
                /\ poolQueue' = Tail(poolQueue)
                /\ Cardinality(held') = connectionLimit)]_vars

C12_Witness ==
    /\ poolLog.op = "handover"
    /\ poolLog.r \in held
    /\ Cardinality(held) = connectionLimit

---------------------------------------------------------------------------
(* Part 4: errors.                                                         *)
(* src/middleware/errorHandler.js 1-173: AppError, globalErrorHandler and  *)
(* the process-level handlers that src/app.js 29-30 installs; the handlers *)
(* that answer an error themselves.  An error object is the record of the  *)
(* fields the handlers read: 0, "" and FALSE stand for undefined.  A JSON  *)
(* body is a record with the keys the handler sends; the values of text    *)
(* fields are "text" for a message the handler wrote and StorageText for   *)
(* the message of the storage error.                                       *)

StorageText == "sqlMessage"
NotJson == <<>>

StorageCodes ==
    {"ER_DUP_ENTRY", "ER_NO_REFERENCED_ROW_2", "ER_ROW_IS_REFERENCED_2",
     "ER_BAD_NULL_ERROR", "ECONNREFUSED"}

\* error.code.startsWith('ER_')
startsWithER(code) ==
    code \in {"ER_DUP_ENTRY", "ER_NO_REFERENCED_ROW_2",
              "ER_ROW_IS_REFERENCED_2", "ER_BAD_NULL_ERROR"}

AppError(message, statusCode, code, isOperational) ==
    [name |-> "Error", message |-> message, statusCode |-> statusCode,
     status |-> IF statusCode \div 100 = 4 THEN "fail" ELSE "error",
     isOperational |-> isOperational, code |-> code]

handleDatabaseError(err) ==
    IF err.code = "ER_DUP_ENTRY"
    THEN AppError("text", 409, "DUPLICATE_ENTRY", TRUE)
    ELSE IF err.code = "ER_NO_REFERENCED_ROW_2"
    THEN AppError("text", 400, "FOREIGN_KEY_CONSTRAINT", TRUE)
    ELSE IF err.code = "ER_ROW_IS_REFERENCED_2"
    THEN AppError("text", 400, "REFERENCED_ROW", TRUE)
    ELSE IF err.code = "ECONNREFUSED"
    THEN AppError("text", 500, "DB_CONNECTION_ERROR", TRUE)
    ELSE AppError("text", 500, "DATABASE_ERROR", TRUE)

handleJWTError == AppError("text", 401, "INVALID_TOKEN", TRUE)
handleJWTExpiredError == AppError("text", 401, "EXPIRED_TOKEN", TRUE)

sendErrorDev(err) ==
    [status |-> err.statusCode,
     body |-> [success |-> FALSE, status |-> err.status,
               error |-> err.message, code |-> err.code,
               timestamp |-> "text", path |-> "text", method |-> "text",
               stack |-> "text", details |-> err.name]]

\* what Express answers when the error handler itself throws
finalhandler == [status |-> 500, body |-> NotJson]

\* In the branch of errors that are not operational the handler calls
\* logger.error, where logger is the object the logger module exports
\* ({logger, requestLogger, ...}: src/test-jwt-server.js 460-466) and not
\* the logger in it: the call throws a TypeError.
sendErrorProd(err) ==
    IF err.isOperational
    THEN [status |-> err.statusCode,
          body |-> [status |-> err.status, message |-> err.message,
                    code |-> err.code]]
    ELSE finalhandler

globalErrorHandler(err, env) ==
    LET e1 == [err EXCEPT !.statusCode = IF @ = 0 THEN 500 ELSE @,
                          !.status = IF @ = "" THEN "error" ELSE @]
        e2 == IF e1.code # "" /\ startsWithER(e1.code)
              THEN handleDatabaseError(e1) ELSE e1
        e3 == IF e2.name = "JsonWebTokenError" THEN handleJWTError ELSE e2
        e4 == IF e3.name = "TokenExpiredError"
              THEN handleJWTExpiredError ELSE e3
    IN  IF env = "development" THEN sendErrorDev(e1) ELSE sendErrorProd(e4)

Environments == {"development", "production", ""}

InitErr ==
    /\ dat_ban = {}
    /\ nextId = 1
    /\ sqlStrict = TRUE
    /\ now \in NowSet
    /\ last = NoRequest
    /\ req = <<>>
    /\ loai_mon = {}
    /\ mon_an = {}
    /\ nextFoodId = 1
    /\ catReq = <<>>
    /\ foodReq = <<>>
    /\ catLog = <<>>
    /\ PoolAtRest
    /\ http = NoHttp
    /\ validation = NoValidation
    /\ AuxAtRest
    /\ NODE_ENV \in Environments
    /\ serverUp = TRUE
    /\ res = NoResponse
    /\ served = 0

Send(via, cause, r) ==
    /\ served < MaxServed
    /\ res' = [via |-> via, cause |-> cause, status |-> r.status,
               body |-> r.body]
    /\ served' = served + 1
    /\ UNCHANGED <<NODE_ENV, serverUp>>
    /\ UNCHANGED notErr

\* FoodController.createFood: the INSERT of FoodModel.create fails, the
\* catch of the model wraps the error, catchAsync passes it to next
CreateFoodFailure ==
    \E code \in StorageCodes :
        /\ serverUp
        /\ Send("createFood", code,
                globalErrorHandler(
                    AppError(StorageText, 500, "INTERNAL_ERROR", TRUE),
                    NODE_ENV))

\* authEndpoints.register: a query fails, the catch answers
RegisterFailure ==
    \E code \in StorageCodes :
        /\ serverUp
        /\ Send("register", code,
                [status |-> 500,
                 body |-> [success |-> FALSE, error |-> "text"]])

\* authenticateToken: no token, a token jwt.verify rejects, a user that is
\* not found, or a failing query
AuthenticateFailure ==
    \E kind \in {"no_token", "TokenExpiredError", "JsonWebTokenError",
                 "inactive", "storage"} :
        /\ serverUp
        /\ Send("authenticateToken", kind,
                [status |-> IF kind = "storage" THEN 500 ELSE 401,
                 body |-> [success |-> FALSE, error |-> "text"]])

\* router.post('/') of /api/datban: validation errors, a duplicate, a
\* failing insert
ReservationFailure ==
    \E kind \in {"invalid", "duplicate", "storage"} :
        /\ serverUp
        /\ Send("datban", kind,
                IF kind = "invalid"
                THEN [status |-> 400,
                      body |-> [success |-> FALSE, message |-> "text",
                                errors |-> "text"]]
                ELSE [status |-> IF kind = "storage" THEN 500 ELSE 400,
                      body |-> [success |-> FALSE, message |-> "text"]])

\* no route matches: notFound, then globalErrorHandler
RouteNotFound ==
    /\ serverUp
    /\ Send("notFound", "none",
            globalErrorHandler(AppError("text", 404, "NOT_FOUND", TRUE),
                               NODE_ENV))

\* express.json() cannot parse the body: next(err) with the SyntaxError of
\* body-parser (status 400), then globalErrorHandler
MalformedJson ==
    /\ serverUp
    /\ Send("express.json", "SyntaxError",
            globalErrorHandler(
                [name |-> "SyntaxError", message |-> "text",
                 statusCode |-> 400, status |-> "400",
                 isOperational |-> FALSE, code |-> ""],
                NODE_ENV))

\* GET /api/docs/postman-collection: res.download with a callback that
\* answers 500 on any error.  When the client aborts after the headers went
\* out, res.status(500).json(...) throws in the callback, outside every
\* handler of Express: uncaughtException, process.exit(1).
DownloadCollection ==
    \E exists, aborted, headersSent \in BOOLEAN :
        /\ serverUp
        /\ IF ~exists
           THEN Send("download", "none",
                     [status |-> 404,
                      body |-> [success |-> FALSE, message |-> "text",
                                code |-> "COLLECTION_NOT_FOUND"]])
           ELSE IF ~aborted
           THEN Send("download", "none", [status |-> 200, body |-> NotJson])
           ELSE IF ~headersSent
           THEN Send("download", "ECONNABORTED",
                     [status |-> 500,
                      body |-> [success |-> FALSE, message |-> "text",
                                code |-> "DOWNLOAD_ERROR"]])
           ELSE /\ served < MaxServed
                /\ serverUp' = FALSE
                /\ res' = [via |-> "download",
                           cause |-> "ERR_HTTP_HEADERS_SENT",
                           status |-> 200, body |-> NotJson]
                /\ UNCHANGED <<NODE_ENV, served>>
                /\ UNCHANGED notErr

NextErr ==
    \/ CreateFoodFailure \/ RegisterFailure \/ AuthenticateFailure
    \/ ReservationFailure \/ RouteNotFound \/ MalformedJson
    \/ DownloadCollection

SpecErr == InitErr /\ [][NextErr]_vars

---------------------------------------------------------------------------
(* Properties of the error handling *)

\* C13: no exception or rejection raised while a request is handled
\* terminates the server process.
C13_ServerKeepsServing == serverUp

IsErrorResponse == res.status >= 400

TextFields == {"message", "error", "details"}

\* C14: a unique-constraint failure of an insert is answered 409 and a
\* foreign-key failure 400, and the response does not carry the message of
\* the storage error.
C14_StorageErrorsMapped ==
    res.via \in {"createFood", "register"} =>
        /\ res.cause = "ER_DUP_ENTRY" => res.status = 409
        /\ res.cause = "ER_NO_REFERENCED_ROW_2" => res.status = 400
        /\ res.cause \in {"ER_DUP_ENTRY", "ER_NO_REFERENCED_ROW_2"} =>
             \A k \in DOMAIN res.body \cap TextFields :
                 res.body[k] # StorageText

\* C15: the body of every error response carries success = false and a
\* message field.
C15_ErrorEnvelope ==
    IsErrorResponse =>
        /\ "success" \in DOMAIN res.body
        /\ res.body.success = FALSE
        /\ "message" \in DOMAIN res.body

---------------------------------------------------------------------------
(* Part 5: the router of /api/datban.                                      *)
(* src/routes/customerRoutes.js 879-1548 registers the routes below in     *)
(* this order; Express gives a request to the first route whose method and *)
(* path pattern match, and a handler that answers ends the dispatch.  A    *)
(* path is the sequence of its segments after /api/datban; the segment     *)
(* ":id" of a pattern matches any segment.                                 *)

routes ==
    <<[method |-> "POST", path |-> <<>>, handler |-> "post /"],
      [method |-> "GET", path |-> <<>>, handler |-> "get /"],
      [method |-> "GET", path |-> <<":id">>, handler |-> "get /:id"],
      [method |-> "PUT", path |-> <<":id">>, handler |-> "put /:id"],
      [method |-> "DELETE", path |-> <<":id">>, handler |-> "delete /:id"],
      [method |-> "PATCH", path |-> <<":id", "status">>,
       handler |-> "patch /:id/status"],
      [method |-> "HEAD", path |-> <<>>, handler |-> "head /"],
      [method |-> "OPTIONS", path |-> <<>>, handler |-> "options /"],
      [method |-> "PATCH", path |-> <<":id">>, handler |-> "patch /:id"],
      [method |-> "DELETE", path |-> <<"bulk">>, handler |-> "delete /bulk"],
      [method |-> "GET", path |-> <<"availability">>,
       handler |-> "get /availability"]>>

matches(route, method, path) ==
    /\ route.method = method
    /\ Len(route.path) = Len(path)
    /\ \A i \in 1..Len(path) :
           route.path[i] = ":id" \/ route.path[i] = path[i]

\* the handler of the first route that matches, "notFound" if none does
dispatch(table, method, path) ==
    LET hits == {i \in 1..Len(table) : matches(table[i], method, path)}
    IN  IF hits = {} THEN "notFound"
        ELSE table[CHOOSE i \in hits : \A j \in hits : i <= j].handler

\* parseInt(req.params.id)
parseInt(segment) ==
    IF segment = "1" THEN 1 ELSE IF segment = "2" THEN 2 ELSE NaN

\* x || d on numbers
OrDefault(x, d) == IF isNaN(x) \/ x = 0 THEN d ELSE x

Reply(method, path, handler, status, data) ==
    [method |-> method, path |-> path, handler |-> handler,
     status |-> status, data |-> data]

\* router.get('/'): LIMIT ${limit} OFFSET ${offset}; a negative limit is a
\* syntax error of the statement
getList(query) ==
    LET page == OrDefault(query.page, 1)
        limit == OrDefault(query.limit, 20)
        offset == (page - 1) * limit
    IN  IF limit < 0 \/ offset < 0
        THEN [status |-> 500, data |-> <<>>]
        ELSE [status |-> 200,
              data |-> [page |-> page, limit |-> limit, offset |-> offset]]

\* router.get('/:id')
getById(db, id) ==
    IF isNaN(id) THEN [status |-> 400, data |-> <<>>]
    ELSE IF SelectById(db, id) = {} THEN [status |-> 404, data |-> <<>>]
    ELSE [status |-> 200, data |-> [id_datban |-> id]]

\* router.delete('/bulk'): ids is the set of the numbers in req.body.ids
bulkDelete(db, ids) ==
    LET existingIds == {id \in ids : SelectById(db, id) # {}}
    IN  IF ids = {} THEN [db |-> db, status |-> 400, data |-> <<>>]
        ELSE IF existingIds = {}
        THEN [db |-> db, status |-> 404, data |-> <<>>]
        ELSE [db |-> {r \in db : r.id_datban \notin existingIds},
              status |-> 200,
              data |-> [deletedCount |-> Cardinality(existingIds),
                        requestedCount |-> Cardinality(ids)]]

\* router.get('/availability')
totalTables == 20

availability(db, query) ==
    IF ~query.hasDateTime THEN [status |-> 400, data |-> <<>>]
    ELSE LET bookedTables ==
                 Cardinality({r \in db : /\ r.ngay = query.date
                                         /\ r.gio = query.time
                                         /\ r.trang_thai # "da_huy"})
         IN  [status |-> 200,
              data |-> [bookedTables |-> bookedTables,
                        availableTables |-> totalTables - bookedTables]]

Paths ==
    {<<>>, <<"1">>, <<"2">>, <<"abc">>, <<"bulk">>, <<"availability">>,
     <<"1", "status">>}
LimitInputs == {NaN, 0, 1, 50, 100, 101, 1000, -5}
PageInputs == {NaN, 1, 2}
BulkInputs == SUBSET (1..MaxId)

SeedRow(id, st) ==
    [id_datban |-> id, ten_khach |-> NameAn, sdt |-> P1, email |-> Null,
     ngay |-> id, gio |-> T19, so_luong_khach |-> 4, ghi_chu |-> Null,
     trang_thai |-> st]

InitRoute ==
    /\ \E S \in SUBSET (1..MaxId),
          st \in [1..MaxId -> {"cho_xac_nhan", "da_huy"}] :
           dat_ban = {SeedRow(id, st[id]) : id \in S}
    /\ nextId = MaxId + 1
    /\ sqlStrict = TRUE
    /\ now \in NowSet
    /\ last = NoRequest
    /\ req = <<>>
    /\ loai_mon = {}
    /\ mon_an = {}
    /\ nextFoodId = 1
    /\ catReq = <<>>
    /\ foodReq = <<>>
    /\ catLog = <<>>
    /\ PoolAtRest
    /\ ErrAtRest
    /\ http = NoHttp
    /\ validation = NoValidation
    /\ AuxAtRest

RouteUnchanged ==
    /\ UNCHANGED <<nextId, sqlStrict, now, last, req>>
    /\ UNCHANGED <<catVars, poolVars, errVars, validation, auxVars>>

\* a GET request to /api/datban..., dispatched and handled
RouteGet ==
    \E path \in Paths, limit \in LimitInputs, page \in PageInputs,
       hasDateTime \in BOOLEAN :
        LET handler == dispatch(routes, "GET", path)
            r == IF handler = "get /"
                 THEN getList([page |-> page, limit |-> limit])
                 ELSE IF handler = "get /:id"
                 THEN getById(dat_ban, parseInt(path[1]))
                 ELSE IF handler = "get /availability"
                 THEN availability(dat_ban,
                          [hasDateTime |-> hasDateTime, date |-> 1,
                           time |-> T19])
                 ELSE [status |-> 404, data |-> <<>>]
        IN  /\ http' = Reply("GET", path, handler, r.status, r.data)
            /\ UNCHANGED dat_ban
            /\ RouteUnchanged

\* a DELETE request to /api/datban..., dispatched and handled
RouteDelete ==
    \E path \in Paths, ids \in BulkInputs :
        LET handler == dispatch(routes, "DELETE", path)
        IN  /\ IF handler = "delete /:id"
               THEN LET o == deleteReservation(dat_ban, nextId,
                                               parseInt(path[1]), NoFail)
                    IN  /\ http' = Reply("DELETE", path, handler,
                                         o.rsp.code, <<>>)
                        /\ dat_ban' = o.db
               ELSE IF handler = "delete /bulk"
               THEN LET r == bulkDelete(dat_ban, ids)
                    IN  /\ http' = Reply("DELETE", path, handler, r.status,
                                         r.data)
                        /\ dat_ban' = r.db
               ELSE /\ http' = Reply("DELETE", path, handler, 404, <<>>)
                    /\ UNCHANGED dat_ban
            /\ RouteUnchanged

NextRoute == RouteGet \/ RouteDelete

SpecRoute == InitRoute /\ [][NextRoute]_vars

---------------------------------------------------------------------------
(* Properties of the router *)

maxLimit == 100

\* C16: the limit of the data query of a reservation list request is at
\* most maxLimit = 100, whatever limit the client sent.
C16_LimitClamped ==
    (http.handler = "get /" /\ http.status = 200) =>
        http.data.limit <= maxLimit

\* C17: DELETE /api/datban/bulk is handled by the bulk delete handler and
\* GET /api/datban/availability by the availability handler.
C17_DedicatedHandlers ==
    /\ (http.method = "DELETE" /\ http.path = <<"bulk">>)
         => http.handler = "delete /bulk"
    /\ (http.method = "GET" /\ http.path = <<"availability">>)
         => http.handler = "get /availability"

---------------------------------------------------------------------------
(* Part 6: the validator on its own.                                       *)
(* validateReservationData (src/routes/customerRoutes.js 764-854) applied  *)
(* to one payload at one moment of the day.                                *)

P11 == P1 \o <<"9">>                       \* eleven digits
P12 == P11 \o <<"9">>                      \* twelve digits
PInner == SubSeq(P1, 1, 4) \o <<" ">> \o SubSeq(P1, 5, 10)  \* "0912 345678"
PLetter == SubSeq(P1, 1, 9) \o <<"A">>     \* "091234567A"
Blank == <<" ">>
Blanks == <<" ", " ">>
MailAn == <<"A", "n", "@", "B", "i", ".", "n">>             \* "An@Bi.n"
MailBad == <<"A", "n", "@", "B", "i">>                      \* "An@Bi"

ValidBase ==
    [ten_khach |-> NameAn, sdt |-> P1, ngay |-> 1, gio |-> T19,
     so_luong_khach |-> 4]

TimeInputs == {<<h, m>> : h \in 0..23, m \in 0..59}
WindowTimes == {<<10, 0>>, <<12, 0>>, <<21, 30>>}
DateInputs == -1..(BookingDays + 1)
PhoneInputs ==
    {P1, P1Lead, P1Trail, PInner, P11, P12, PShort, PLetter, Blank, Blanks,
     <<>>}

Payloads ==
    {[ValidBase EXCEPT !.gio = g] : g \in TimeInputs}
      \cup {[ValidBase EXCEPT !.ngay = d, !.gio = g] :
                d \in DateInputs, g \in WindowTimes}
      \cup {[ValidBase EXCEPT !.sdt = p] : p \in PhoneInputs}
      \cup {[ValidBase EXCEPT !.so_luong_khach = n] : n \in {0, 1, 20, 21}}
      \cup {[ten_khach |-> NameAn, sdt |-> P1, email |-> m, ngay |-> 1,
             gio |-> T19, so_luong_khach |-> 4] : m \in {MailAn, MailBad}}

\* moments of the day at which the validation runs, minutes since midnight
ClockInputs == {0, 360, 419, 420, 599, 600, 720, 1290, 1439}

InitValidate ==
    /\ dat_ban = {}
    /\ nextId = 1
    /\ sqlStrict = TRUE
    /\ now \in ClockInputs
    /\ last = NoRequest
    /\ req = <<>>
    /\ loai_mon = {}
    /\ mon_an = {}
    /\ nextFoodId = 1
    /\ catReq = <<>>
    /\ foodReq = <<>>
    /\ catLog = <<>>
    /\ PoolAtRest
    /\ ErrAtRest
    /\ http = NoHttp
    /\ AuxAtRest
    /\ \E data \in Payloads :
           validation = [data |-> data, done |-> FALSE, errors |-> <<>>]

\* const validationErrors = validateReservationData(data)
Validate ==
    /\ ~validation.done
    /\ validation' =
           [validation EXCEPT
               !.done = TRUE,
               !.errors = validateReservationData(validation.data, now)]
    /\ UNCHANGED <<resVars, catVars, poolVars, errVars, http, auxVars>>

NextValidate == Validate

SpecValidate == InitValidate /\ [][NextValidate]_vars

---------------------------------------------------------------------------
(* Properties of the validator *)

Reported(msg) ==
    \E i \in 1..Len(validation.errors) : validation.errors[i] = msg

MinuteOfDay(gio) == gio[1] * 60 + gio[2]

InWindow(gio) ==
    10 * 60 <= MinuteOfDay(gio) /\ MinuteOfDay(gio) <= 21 * 60 + 30

FieldsValid(data) ==
    /\ Has(data, "ten_khach")
    /\ Len(trim(data.ten_khach)) >= 2
    /\ Len(data.ten_khach) <= 100
    /\ NameRegex(data.ten_khach)
    /\ Has(data, "sdt")
    /\ PhoneRegex(StripWS(data.sdt))
    /\ Has(data, "email") =>
         (EmailRegex(data.email) /\ Len(data.email) <= 100)
    /\ Has(data, "so_luong_khach")
    /\ data.so_luong_khach \in 1..20
    /\ Has(data, "ghi_chu") => Len(data.ghi_chu) <= 500

\* C18: a payload whose fields are all valid, whose date is one of today
\* ... today + 30 and whose time is within 10:00-21:30 gets an empty error
\* list, at whatever moment of the day it is validated.
C18_ValidPayloadAccepted ==
    (/\ validation.done
     /\ FieldsValid(validation.data)
     /\ validation.data.ngay \in 0..BookingDays
     /\ InWindow(validation.data.gio))
        => validation.errors = <<>>

C20_PhoneFlagged ==
    (/\ validation.done
     /\ ~PhoneRegex(StripWS(validation.data.sdt)))
        => (Reported("phone_required") \/ Reported("phone_format"))


\* ------------------------------------------------------------------------
\* Part 7: search strings and the LIKE patterns built from them

\* the other parts of the server, which a search leaves alone
coreVars == <<resVars, catVars, poolVars, errVars, http, validation>>
othersSearch == <<coreVars, paging, ai, nest, conn, auth, signup>>

CoreAtRest ==
    /\ dat_ban = {}
    /\ nextId = 1
    /\ sqlStrict = TRUE
    /\ now = 720
    /\ last = NoRequest
    /\ req = <<>>
    /\ loai_mon = {}
    /\ mon_an = {}
    /\ nextFoodId = 1
    /\ catReq = <<>>
    /\ foodReq = <<>>
    /\ catLog = <<>>
    /\ PoolAtRest
    /\ ErrAtRest
    /\ http = NoHttp
    /\ validation = NoValidation

Backslash == "\\"

MaxSearchLen == 2
MaxTextLen == 2
SearchChars == {"a", "b", "%", "_", Backslash}

\* all texts over an alphabet, up to a length
RECURSIVE Texts(_, _)
Texts(chars, n) ==
    IF n = 0 THEN {<<>>}
    ELSE Texts(chars, n - 1) \cup
         {<<c>> \o t : c \in chars, t \in {u \in Texts(chars, n - 1) : Len(u) = n - 1}}

\* column LIKE ?  with the default escape character: % matches any run of
\* characters, _ one character, a backslash makes the next character literal
RECURSIVE Like(_, _)
Like(text, pattern) ==
    IF pattern = <<>> THEN text = <<>>
    ELSE IF Head(pattern) = "%"
    THEN \E k \in 0..Len(text) :
             Like(SubSeq(text, k + 1, Len(text)), Tail(pattern))
    ELSE IF Head(pattern) = "_"
    THEN text # <<>> /\ Like(Tail(text), Tail(pattern))
    ELSE IF Head(pattern) = Backslash /\ Len(pattern) > 1
    THEN /\ text # <<>>
         /\ Head(text) = pattern[2]
         /\ Like(Tail(text), Tail(Tail(pattern)))
    ELSE /\ text # <<>>
         /\ Head(text) = Head(pattern)
         /\ Like(Tail(text), Tail(pattern))

\* query.replace(/[<>]/g, '')
RECURSIVE stripTags(_)
stripTags(q) ==
    IF q = <<>> THEN <<>>
    ELSE IF Head(q) \in {"<", ">"} THEN stripTags(Tail(q))
    ELSE <<Head(q)>> \o stripTags(Tail(q))

\* query.replace(/[%_]/g, '\\$&')
RECURSIVE escapeWildcards(_)
escapeWildcards(q) ==
    IF q = <<>> THEN <<>>
    ELSE IF Head(q) \in {"%", "_"}
    THEN <<Backslash, Head(q)>> \o escapeWildcards(Tail(q))
    ELSE <<Head(q)>> \o escapeWildcards(Tail(q))

substring(q, n) == SubSeq(q, 1, IF Len(q) < n THEN Len(q) ELSE n)

sanitizeSearchQuery(query) ==
    IF query = <<>> THEN <<>>
    ELSE substring(escapeWildcards(stripTags(trim(query))), 100)

\* helpers buildWhereClause: const searchTerm = `%${sanitizeSearchQuery(value)}%`
buildWhereClause(value) == <<"%">> \o sanitizeSearchQuery(value) \o <<"%">>

\* FoodModel.getAll: const searchTerm = `%${filters.search}%`
getAllSearchTerm(q) == <<"%">> \o q \o <<"%">>

\* reservation list: const searchTerm = `%${phone}%`
reservationSearchTerm(phone) == <<"%">> \o phone \o <<"%">>

\* pagination middleware: search ? `%${search}%` : ''  after query.search.trim()
parseSearchParams(query) == <<"%">> \o trim(query) \o <<"%">>

SearchInputs == Texts(SearchChars, MaxSearchLen) \ {<<>>}
RowTexts == Texts(SearchChars, MaxTextLen)

InitSearch ==
    /\ CoreAtRest
    /\ AuxAtRest

Searched(path, input, pattern) ==
    /\ search = NoSearch
    /\ \E text \in RowTexts :
           search' = [path |-> path, input |-> input, pattern |-> pattern,
                      text |-> text]
    /\ UNCHANGED othersSearch

\* GET /api/foods?search=  through FoodModel.getAll
SearchFoods ==
    \E q \in SearchInputs :
        /\ TRUE
        /\ Searched("FoodModel.getAll", q, getAllSearchTerm(q))

\* GET /api/datban?phone=
SearchReservations ==
    \E q \in SearchInputs :
        /\ TRUE
        /\ Searched("router.get", q, reservationSearchTerm(q))

\* a list built with the helpers' buildWhereClause
SearchSanitized ==
    \E q \in SearchInputs :
        /\ TRUE
        /\ Searched("buildWhereClause", q, buildWhereClause(q))

\* a list behind the pagination middleware
SearchPaginated ==
    \E q \in SearchInputs :
        /\ TRUE
        /\ Searched("parseSearchParams", q, parseSearchParams(q))

\* the rows are sent and the request is over
SearchRespond ==
    /\ search # NoSearch
    /\ search' = NoSearch
    /\ UNCHANGED othersSearch

NextSearch ==
    \/ SearchFoods
    \/ SearchReservations
    \/ SearchSanitized
    \/ SearchPaginated
    \/ SearchRespond

SpecSearch == InitSearch /\ [][NextSearch]_vars

\* s occurs in t as a run of consecutive characters
IsSubstring(s, t) ==
    \E k \in 0..(Len(t) - Len(s)) : SubSeq(t, k + 1, k + Len(s)) = s

\* C21: on every search path a row is matched by the generated pattern only
\* when the user's string occurs literally in the row's text, and always
\* when it does: %, _ and backslash of the input act as themselves.
C21_LiteralMatchOnly ==
    search.path # "none" =>
        (Like(search.text, search.pattern) <=>
            IsSubstring(search.input, search.text))


\* ------------------------------------------------------------------------
\* Part 8: the pagination descriptor

othersPage == <<coreVars, search, ai, nest, conn, auth, signup>>

MaxTotal == 5
MaxPageLimit == 3
MaxOffset == 4
MaxPage == 4

Max(a, b) == IF a > b THEN a ELSE b
Min(a, b) == IF a < b THEN a ELSE b

\* Math.floor(a / b) and Math.ceil(a / b) for a >= 0, b >= 1
floor(a, b) == a \div b
ceil(a, b) == (a + b - 1) \div b

\* helpers: buildPagination(total, limit, offset)
buildPagination(total, limit, offset) ==
    [by |-> "buildPagination",
     total |-> total,
     limit |-> limit,
     offset |-> offset,
     currentPage |-> floor(offset, limit) + 1,
     totalPages |-> ceil(total, limit),
     hasMore |-> offset + limit < total,
     hasPrevious |-> offset > 0]

\* responseFormatter: createPagination(total, page, limit)
createPagination(total, page, limit) ==
    LET totalPages == ceil(total, limit)
        currentPage == Max(1, Min(page, totalPages))
    IN [by |-> "createPagination",
        total |-> total,
        page |-> currentPage,
        limit |-> limit,
        totalPages |-> totalPages,
        hasNext |-> currentPage < totalPages,
        hasPrev |-> currentPage > 1,
        offset |-> (currentPage - 1) * limit]

InitPage ==
    /\ CoreAtRest
    /\ AuxAtRest

\* a list handler that takes limit and offset from the query string
ListByOffset ==
    \E total \in 0..MaxTotal, limit \in 1..MaxPageLimit, offset \in 0..MaxOffset :
        /\ paging = NoPaging
        /\ paging' = buildPagination(total, limit, offset)
        /\ UNCHANGED othersPage

\* req.createPaginationResponse(total) of the pagination middleware
ListByPage ==
    \E total \in 0..MaxTotal, limit \in 1..MaxPageLimit, page \in 1..MaxPage :
        /\ paging = NoPaging
        /\ paging' = createPagination(total, page, limit)
        /\ UNCHANGED othersPage

PageRespond ==
    /\ paging # NoPaging
    /\ paging' = NoPaging
    /\ UNCHANGED othersPage

NextPage ==
    \/ ListByOffset
    \/ ListByPage
    \/ PageRespond

SpecPage == InitPage /\ [][NextPage]_vars

\* the two descriptors name the same flags differently
HasMore(d) == IF d.by = "createPagination" THEN d.hasNext ELSE d.hasMore
HasPrevious(d) == IF d.by = "createPagination" THEN d.hasPrev ELSE d.hasPrevious

\* C22: a descriptor computed for an empty result (total = 0) has
\* totalPages = 0 and neither a next nor a previous page, whatever limit and
\* offset or page were requested.
C22_EmptyResultDescriptor ==
    (paging # NoPaging /\ paging.total = 0) =>
        /\ paging.totalPages = 0
        /\ ~HasMore(paging)
        /\ ~HasPrevious(paging)


\* ------------------------------------------------------------------------
\* Part 9: the AI service (Gemini and Groq) behind the chat endpoints

othersAI == <<coreVars, search, paging, nest, conn, auth, signup>>

\* seconds: setTimeout(() => reject(new Error('Gemini API timeout')), 15000)
geminiTimeout == 15
\* the longest a provider is watched for
MaxElapsed == 18

InitAI ==
    /\ CoreAtRest
    /\ AuxAtRest

\* constructor: a provider exists when its API key is set in the environment
Construct ==
    /\ ai.phase = "unloaded"
    /\ \E geminiApiKey \in BOOLEAN, groqApiKey \in BOOLEAN :
           ai' = [ai EXCEPT !.gemini = geminiApiKey, !.groq = groqApiKey,
                            !.phase = "idle"]
    /\ UNCHANGED othersAI

\* catch (error) { ... return this.getFallbackResponse(); }
getFallbackResponse(a) == [a EXCEPT !.phase = "returned", !.result = "fallback"]

\* generateChatResponse, up to the provider call it awaits
generateChatResponse(a, useGroq) ==
    LET b == [a EXCEPT !.useGroq = useGroq, !.elapsed = 0, !.tried = {},
                       !.result = "none"]
    IN IF (useGroq \/ ~a.gemini) /\ a.groq
       THEN [b EXCEPT !.phase = "groq", !.tried = {"groq"}]
       ELSE IF a.gemini
       THEN [b EXCEPT !.phase = "gemini", !.tried = {"gemini"}]
       ELSE getFallbackResponse(b)

ChatRequest ==
    /\ ai.phase = "idle"
    /\ \E useGroq \in BOOLEAN : ai' = generateChatResponse(ai, useGroq)
    /\ UNCHANGED othersAI

\* a second passes while the provider has not answered; the timer of the
\* Gemini call fires at geminiTimeout, the Groq call has no timer
Tick ==
    /\ ai.phase \in {"gemini", "groq"}
    /\ ai.elapsed < MaxElapsed
    /\ ai.phase = "gemini" => ai.elapsed < geminiTimeout
    /\ ai' = [ai EXCEPT !.elapsed = @ + 1]
    /\ UNCHANGED othersAI

\* model.generateContent(prompt) resolves first
generateGeminiResponse ==
    /\ ai.phase = "gemini"
    /\ ai' = [ai EXCEPT !.phase = "returned", !.result = "gemini"]
    /\ UNCHANGED othersAI

\* timeoutPromise rejects first: the error is rethrown and caught by
\* generateChatResponse
GeminiTimesOut ==
    /\ ai.phase = "gemini"
    /\ ai.elapsed = geminiTimeout
    /\ ai' = getFallbackResponse(ai)
    /\ UNCHANGED othersAI

\* the provider rejects; the error is rethrown and caught
GeminiFails ==
    /\ ai.phase = "gemini"
    /\ ai' = getFallbackResponse(ai)
    /\ UNCHANGED othersAI

\* this.groq.chat.completions.create(...) resolves
generateGroqResponse ==
    /\ ai.phase = "groq"
    /\ ai' = [ai EXCEPT !.phase = "returned", !.result = "groq"]
    /\ UNCHANGED othersAI

GroqFails ==
    /\ ai.phase = "groq"
    /\ ai' = getFallbackResponse(ai)
    /\ UNCHANGED othersAI

\* the controller sends what generateChatResponse returned
ChatRespond ==
    /\ ai.phase = "returned"
    /\ ai' = [ai EXCEPT !.phase = "idle"]
    /\ UNCHANGED othersAI

NextAI ==
    \/ Construct
    \/ ChatRequest
    \/ Tick
    \/ generateGeminiResponse
    \/ GeminiTimesOut
    \/ GeminiFails
    \/ generateGroqResponse
    \/ GroqFails
    \/ ChatRespond

SpecAI == InitAI /\ [][NextAI]_vars

\* C23: no provider call is still awaited once more than the timeout has
\* passed, and every chat call has returned by then, with a provider's
\* answer or the static response.
C23_ProviderCallsBounded ==
    /\ ai.phase \in {"gemini", "groq"} => ai.elapsed <= geminiTimeout
    /\ ai.phase = "returned" =>
           /\ ai.elapsed <= geminiTimeout
           /\ ai.result \in {"gemini", "groq", "fallback"}

\* C24: the static response is returned only after every configured
\* provider has been tried.
C24_FallbackAfterBothTried ==
    (ai.phase = "returned" /\ ai.result = "fallback") =>
        /\ ai.gemini => "gemini" \in ai.tried
        /\ ai.groq => "groq" \in ai.tried


\* ------------------------------------------------------------------------
\* Part 10: model methods that call getById while they hold a connection
\*
\* The requests run the same code, so they are counted by where they are:
\*   one    hold the connection taken by the method itself
\*   two    hold that connection and the one taken inside getById
\*   back   returned from getById and hold the method's connection again
\*   queue  the pool's queue: "outer" for a request that waits for the
\*          method's connection, "inner" for one that holds the method's
\*          connection and waits inside getById
\*   free   connections the pool has open and nobody holds

othersNest == <<coreVars, search, paging, ai, conn, auth, signup>>

NumNested == 10

RECURSIVE Count(_, _)
Count(q, kind) ==
    IF q = <<>> THEN 0
    ELSE (IF Head(q) = kind THEN 1 ELSE 0) + Count(Tail(q), kind)

\* connections held by requests
NestHeld(n) == n.one + 2 * n.two + n.back + Count(n.queue, "inner")
\* requests in flight
NestBusy(n) == n.one + n.two + n.back + Len(n.queue)

\* pool.getConnection(): a free connection, else a new one below
\* connectionLimit, else the caller waits in the queue
NestAcquire(n, kind, got) ==
    IF n.free > 0 THEN [got EXCEPT !.free = n.free - 1]
    ELSE IF NestHeld(n) < connectionLimit THEN got
    ELSE [n EXCEPT !.queue = Append(n.queue, kind),
                   !.one = IF kind = "inner" THEN n.one - 1 ELSE n.one]

\* connection.release(): the connection goes to the oldest waiter, if any
NestHandOver(n) ==
    IF n.queue = <<>> THEN [n EXCEPT !.free = n.free + 1]
    ELSE IF Head(n.queue) = "outer"
    THEN [n EXCEPT !.queue = Tail(n.queue), !.one = n.one + 1]
    ELSE [n EXCEPT !.queue = Tail(n.queue), !.two = n.two + 1]

InitNest ==
    /\ CoreAtRest
    /\ AuxAtRest

\* FoodModel.delete (update, updateStock, CategoryModel.delete alike):
\* connection = await pool.getConnection()
MethodGetConnection ==
    /\ NestBusy(nest) < NumNested
    /\ waitForConnections
    /\ queueLimit = 0 \/ Len(nest.queue) < queueLimit
    /\ nest' = NestAcquire(nest, "outer", [nest EXCEPT !.one = nest.one + 1])
    /\ UNCHANGED othersNest

\* const existingItem = await this.getById(id), whose first statement is
\* connection = await pool.getConnection()
GetByIdGetConnection ==
    /\ nest.one > 0
    /\ waitForConnections
    /\ queueLimit = 0 \/ Len(nest.queue) < queueLimit
    /\ nest' = NestAcquire(nest, "inner",
                   [nest EXCEPT !.one = nest.one - 1, !.two = nest.two + 1])
    /\ UNCHANGED othersNest

\* getById: finally { if (connection) connection.release(); }
GetByIdRelease ==
    /\ nest.two > 0
    /\ nest' = NestHandOver([nest EXCEPT !.two = nest.two - 1,
                                         !.back = nest.back + 1])
    /\ UNCHANGED othersNest

\* the method: finally { if (connection) connection.release(); }
MethodRelease ==
    /\ nest.back > 0
    /\ nest' = NestHandOver([nest EXCEPT !.back = nest.back - 1])
    /\ UNCHANGED othersNest

NextNest ==
    \/ MethodGetConnection
    \/ GetByIdGetConnection
    \/ GetByIdRelease
    \/ MethodRelease

SpecNest == InitNest /\ [][NextNest]_vars

\* every open connection is held by a request that waits inside getById
HoldAndWait ==
    /\ Count(nest.queue, "inner") = connectionLimit
    /\ nest.one = 0 /\ nest.two = 0 /\ nest.back = 0 /\ nest.free = 0

\* C25: the requests never reach a state in which all connections of the
\* pool are held by requests that wait for another connection (from which
\* no request could release the connection it took).
C25_NoHoldAndWait == ~HoldAndWait


\* ------------------------------------------------------------------------
\* Part 11: routines that acquire a database connection, and their exits

othersConn == <<coreVars, search, paging, ai, nest, auth, signup>>

MaxLost == 3

\* the routines, the statements each executes on its connection, and
\* whether the connection comes from the pool
Routines == {"testConnection", "initializeTables", "register", "authenticateToken"}

Statements(routine) ==
    CASE routine = "testConnection" -> 1
      [] routine = "initializeTables" -> 5
      [] routine = "register" -> 3
      [] routine = "authenticateToken" -> 1

FromPool(routine) == routine \in {"testConnection", "initializeTables"}

\* testConnection releases in a finally block; the other routines release
\* as a statement of the try block and have no finally
ReleasesInFinally(routine) == routine = "testConnection"

InitConn ==
    /\ CoreAtRest
    /\ AuxAtRest

\* pool.getConnection() / mysql.createConnection(dbConfig)
Acquire ==
    /\ conn.routine = "none"
    /\ conn.poolLost < MaxLost
    /\ conn.directLost < MaxLost
    /\ \E routine \in Routines :
           conn' = [conn EXCEPT !.routine = routine, !.pc = 0, !.open = TRUE,
                                !.exit = "none"]
    /\ UNCHANGED othersConn

\* await connection.execute(...) resolves
StatementDone ==
    /\ conn.routine # "none"
    /\ conn.exit = "none"
    /\ conn.pc < Statements(conn.routine)
    /\ conn' = [conn EXCEPT !.pc = conn.pc + 1]
    /\ UNCHANGED othersConn

\* await connection.execute(...) rejects: control goes to the catch block
StatementThrows ==
    /\ conn.routine # "none"
    /\ conn.exit = "none"
    /\ conn.pc < Statements(conn.routine)
    /\ conn' = [conn EXCEPT !.exit = "threw",
                            !.open = ~ReleasesInFinally(conn.routine)]
    /\ UNCHANGED othersConn

\* register: the email exists: await connection.end(); return 400
EmailExists ==
    /\ conn.routine = "register"
    /\ conn.exit = "none"
    /\ conn.pc = 1
    /\ conn' = [conn EXCEPT !.exit = "returned", !.open = FALSE]
    /\ UNCHANGED othersConn

\* after the last statement: connection.release() / await connection.end()
ReleaseAndReturn ==
    /\ conn.routine # "none"
    /\ conn.exit = "none"
    /\ conn.pc = Statements(conn.routine)
    /\ conn' = [conn EXCEPT !.exit = "returned", !.open = FALSE]
    /\ UNCHANGED othersConn

\* the routine is over; a connection it left open stays open
RoutineOver ==
    /\ conn.exit # "none"
    /\ conn' = [NoConn EXCEPT
                  !.poolLost = conn.poolLost +
                      (IF conn.open /\ FromPool(conn.routine) THEN 1 ELSE 0),
                  !.directLost = conn.directLost +
                      (IF conn.open /\ ~FromPool(conn.routine) THEN 1 ELSE 0)]
    /\ UNCHANGED othersConn

NextConn ==
    \/ Acquire
    \/ StatementDone
    \/ StatementThrows
    \/ EmailExists
    \/ ReleaseAndReturn
    \/ RoutineOver

SpecConn == InitConn /\ [][NextConn]_vars

\* C26: a routine that has left, by return or through its catch block, no
\* longer has its connection open, and no connection has been lost.
C26_ReleasedOnEveryExit ==
    /\ conn.exit # "none" => ~conn.open
    /\ conn.poolLost = 0
    /\ conn.directLost = 0


\* ------------------------------------------------------------------------
\* Part 12: JSON web tokens and the authenticateToken middleware
\*
\* A token is its payload, the key it was signed with and its expiry; the
\* clock counts days.

othersAuth == <<coreVars, search, paging, ai, nest, conn, signup>>

MaxClock == 8
UserIds == 1..2
\* rows of khach_hang with trang_thai = "active"
ActiveUsers == {1}

JWT_SECRET == "JWT_SECRET"

\* expiresIn: '24h' and '7d'
accessExpiresIn == 1
refreshExpiresIn == 7

\* jwt.sign(payload, secret, { expiresIn })
sign(payload, secret, expiresIn, iat) ==
    [payload |-> payload, key |-> secret, exp |-> iat + expiresIn]

\* jwt.verify(token, secret): the decoded payload, or the error's name
verify(tok, secret, clock) ==
    IF tok.key # secret THEN [err |-> "JsonWebTokenError"]
    ELSE IF clock >= tok.exp THEN [err |-> "TokenExpiredError"]
    ELSE [err |-> "none", decoded |-> tok.payload]

\* authenticateToken: the status it answers with, or next()
authenticateToken(tok, clock) ==
    IF tok = <<>> THEN [status |-> 401, next |-> FALSE]
    ELSE LET v == verify(tok, JWT_SECRET, clock)
         IN IF v.err # "none" THEN [status |-> 401, next |-> FALSE]
            ELSE IF v.decoded.id \notin ActiveUsers
            THEN [status |-> 401, next |-> FALSE]
            ELSE [status |-> 0, next |-> TRUE]

InitAuth ==
    /\ CoreAtRest
    /\ AuxAtRest

\* register / login: an access token and a refresh token for the user,
\* both signed with JWT_SECRET; the access payload has no tokenType
IssueTokens ==
    /\ auth.presented = <<>>
    /\ \E id \in UserIds :
           auth' = [auth EXCEPT
               !.token = sign([id |-> id, tokenType |-> "undefined"],
                              JWT_SECRET, accessExpiresIn, auth.clock),
               !.refreshToken = sign([id |-> id, tokenType |-> "refresh"],
                                     JWT_SECRET, refreshExpiresIn, auth.clock)]
    /\ UNCHANGED othersAuth

\* a day passes
ClockTick ==
    /\ auth.presented = <<>>
    /\ auth.clock < MaxClock
    /\ auth' = [auth EXCEPT !.clock = auth.clock + 1]
    /\ UNCHANGED othersAuth

\* what a client can put in the Authorization header: a token it was
\* given, or one it signed itself with another key
Presentable ==
    {t \in {auth.token, auth.refreshToken} : t # <<>>} \cup
    {sign([id |-> id, tokenType |-> ty], "other", accessExpiresIn, auth.clock) :
        id \in UserIds, ty \in {"undefined", "refresh"}}

\* a request for a protected route
Authenticate ==
    /\ auth.presented = <<>>
    /\ \E tok \in Presentable :
           LET r == authenticateToken(tok, auth.clock)
           IN auth' = [auth EXCEPT !.presented = tok, !.status = r.status,
                                   !.next = r.next]
    /\ UNCHANGED othersAuth

\* the request is over
AuthRespond ==
    /\ auth.presented # <<>>
    /\ auth' = [auth EXCEPT !.presented = <<>>, !.status = 0, !.next = FALSE]
    /\ UNCHANGED othersAuth

NextAuth ==
    \/ IssueTokens
    \/ ClockTick
    \/ Authenticate
    \/ AuthRespond

SpecAuth == InitAuth /\ [][NextAuth]_vars

\* C27: the middleware calls next() only for a token that was not issued
\* as a refresh token.
C27_RefreshTokenNotAccepted ==
    (auth.presented # <<>> /\ auth.next) =>
        auth.presented.payload.tokenType # "refresh"


\* ------------------------------------------------------------------------
\* Part 13: register, over the three user stores
\*
\*   "memory"  the mockUsers array of the test server
\*   "file"    data/users.json, read and written whole
\*   "mysql"   table khach_hang, whose email column is UNIQUE
\*
\* A user is [id, email]. Each request checks the email, awaits the
\* password hash and then stores the user; other requests run at each await.

othersSignup == <<coreVars, search, paging, ai, nest, conn, auth>>

MaxRegistrations == 3
RegClients == 1..NumRegClients
Emails == {"a@x", "b@x"}
Variants == {"memory", "file", "mysql"}

\* users.find(u => u.email === email) / SELECT id FROM khach_hang WHERE email = ?
findUserByEmail(users, email) == \E i \in 1..Len(users) : users[i].email = email

RECURSIVE MaxUserId(_)
MaxUserId(users) ==
    IF users = <<>> THEN 0
    ELSE LET m == MaxUserId(Tail(users))
         IN IF Head(users).id > m THEN Head(users).id ELSE m

\* createUser: users.length > 0 ? Math.max(...users.map(u => u.id)) + 1 : 1
newId(users) == IF Len(users) > 0 THEN MaxUserId(users) + 1 ELSE 1

InitSignup ==
    /\ CoreAtRest
    /\ AuxAtRest

\* which of the three servers is running
Deploy ==
    /\ signup.variant = "none"
    /\ \E v \in Variants : signup' = [signup EXCEPT !.variant = v]
    /\ UNCHANGED othersSignup

\* POST register with a complete, well-formed body
RegisterReceive(c) ==
    /\ signup.variant # "none"
    /\ signup.procs[c].pc = "idle"
    /\ signup.started < MaxRegistrations
    /\ \E email \in Emails :
           signup' = [signup EXCEPT
               !.procs[c] = [IdleRegister EXCEPT !.pc = "check", !.email = email],
               !.started = signup.started + 1]
    /\ UNCHANGED othersSignup

\* the existing-user check; on a hit the answer is 400
RegisterCheck(c) ==
    /\ signup.procs[c].pc = "check"
    /\ signup' =
         IF findUserByEmail(signup.users, signup.procs[c].email)
         THEN [signup EXCEPT !.procs[c].pc = "done", !.procs[c].status = 400]
         ELSE [signup EXCEPT !.procs[c].pc = "hashed"]
    /\ UNCHANGED othersSignup

\* test server: after await bcrypt.hash, mockUsers.push(newUser); 201
RegisterPush(c) ==
    /\ signup.variant = "memory"
    /\ signup.procs[c].pc = "hashed"
    /\ LET newUser == [id |-> Len(signup.users) + 1, email |-> signup.procs[c].email]
       IN signup' = [signup EXCEPT
              !.users = Append(signup.users, newUser),
              !.created = signup.created \cup {newUser},
              !.procs[c].pc = "done", !.procs[c].status = 201]
    /\ UNCHANGED othersSignup

\* MySQL: INSERT INTO khach_hang; the UNIQUE key on email rejects a second
\* row with the same email and the catch block answers 500
RegisterInsert(c) ==
    /\ signup.variant = "mysql"
    /\ signup.procs[c].pc = "hashed"
    /\ LET newUser == [id |-> Len(signup.users) + 1, email |-> signup.procs[c].email]
       IN signup' =
            IF findUserByEmail(signup.users, signup.procs[c].email)
            THEN [signup EXCEPT !.procs[c].pc = "done", !.procs[c].status = 500]
            ELSE [signup EXCEPT
                     !.users = Append(signup.users, newUser),
                     !.created = signup.created \cup {newUser},
                     !.procs[c].pc = "done", !.procs[c].status = 201]
    /\ UNCHANGED othersSignup

\* file store, createUser: const users = await loadUsers()
loadUsers(c) ==
    /\ signup.variant = "file"
    /\ signup.procs[c].pc = "hashed"
    /\ signup' = [signup EXCEPT !.procs[c].pc = "loaded",
                                !.procs[c].loaded = signup.users]
    /\ UNCHANGED othersSignup

\* file store, createUser: users.push(newUser); await saveUsers(users); 201
saveUsers(c) ==
    /\ signup.procs[c].pc = "loaded"
    /\ LET users == signup.procs[c].loaded
           newUser == [id |-> newId(users), email |-> signup.procs[c].email]
       IN signup' = [signup EXCEPT
              !.users = Append(users, newUser),
              !.created = signup.created \cup {newUser},
              !.procs[c].pc = "done", !.procs[c].status = 201]
    /\ UNCHANGED othersSignup

\* the answer is sent
RegisterRespond(c) ==
    /\ signup.procs[c].pc = "done"
    /\ signup' = [signup EXCEPT !.procs[c] = IdleRegister]
    /\ UNCHANGED othersSignup

NextSignup ==
    \/ Deploy
    \/ \E c \in RegClients : RegisterReceive(c)
    \/ \E c \in RegClients : RegisterCheck(c)
    \/ \E c \in RegClients : RegisterPush(c)
    \/ \E c \in RegClients : RegisterInsert(c)
    \/ \E c \in RegClients : loadUsers(c)
    \/ \E c \in RegClients : saveUsers(c)
    \/ \E c \in RegClients : RegisterRespond(c)

SpecSignup == InitSignup /\ [][NextSignup]_vars

\* C28: no two stored users have the same email, and no two registrations
\* that returned 201 were for the same email.
C28_EmailsUnique ==
    /\ \A i, j \in 1..Len(signup.users) :
           signup.users[i].email = signup.users[j].email => i = j
    /\ \A u, v \in signup.created : u.email = v.email => u = v

\* C29: with the file store, once no registration is in flight every user
\* whose registration returned 201 is in the stored list.
C29_CreatedUsersKept ==
    (signup.variant = "file" /\ \A c \in RegClients : signup.procs[c].pc = "idle")
        => \A u \in signup.created :
               \E i \in 1..Len(signup.users) : signup.users[i] = u


\* ------------------------------------------------------------------------
\* Part 14: the phone number as the detector and the insert see it

\* the two phone values are the same once all blanks are removed
SameNormalizedPhone(a, b) == StripWS(a) = StripWS(b)

\* C30: a create is answered 201 only when no other reservation that is not
\* cancelled has the same date and time and a phone value that differs from
\* the request's at most in blanks.
C30_DetectorUsesNormalizedPhone ==
    (last.op = "POST" /\ last.code = 201) =>
        ~\E r \in dat_ban :
            /\ r.id_datban # last.id
            /\ Active(r)
            /\ r.ngay = last.data.ngay
            /\ r.gio = last.data.gio
            /\ SameNormalizedPhone(r.sdt, last.data.sdt)

====
